---- MODULE Spec2Model ----
(***************************************************************************)
(* A model of the Singapore weather bot: the retrying fetcher and the      *)
(* three-source coordinator of weather_api.py, the handlers of             *)
(* bot_handlers.py (/start, /help, /menu, /rainfall, /windspeed,           *)
(* /winddirection, /weather, /stations, /wind, the menu buttons and the    *)
(* error handler) with the network session they open and the messages      *)
(* they send, long ones in several parts, the pure functions they use      *)
(* (the reading lookup, the summary statistics, the station name search    *)
(* and resolution, the compass label), and the start-up of main.py.        *)
(***************************************************************************)
EXTENDS Integers, Sequences, FiniteSets, TLC

(***************************************************************************)
(* config.py                                                               *)
(***************************************************************************)
MAX_RETRIES == 3

\* The three sources, in the order get_all_weather_data lists its tasks:
\* 1 = rainfall, 2 = wind speed, 3 = wind direction.
Sources == {1, 2, 3}

VARIABLES
    mode,       \* "single": one get_*_data call; "all": get_all_weather_data
    pc,         \* per source: "idle", "request", "waiting", "sleep", "done"
    attempt,    \* per source: the loop variable of _make_request
    timer,      \* per source: time-units left of the current asyncio.sleep
    resp,       \* per source: the responses its attempts received, in order
    ret,        \* per source: what _make_request returned
    task,       \* per source: the outcome of the get_*_data coroutine
    waits,      \* per source: the backoff waits completed, in order
    slept,      \* per source: time-units spent in backoff so far
    log,        \* per source: the log entries written by _make_request
    finished,   \* the sources whose task is over, in order of completion
    pcC,        \* get_all_weather_data: "off", "gather", "returned"
    results,    \* the tuple get_all_weather_data returned
    hcmd,       \* the handler that runs: "rainfall", ..., "start",
                \* "callback", "error"
    hargs,      \* context.args, the words after the command
    hfetch,     \* what the handler's fetch returns: None or a payload
    hresults,   \* per source: what the fetches of /weather, /wind and
                \* /stations return
    hout,       \* the message the handler is about to send, or Raised
    hpc,        \* the handler: "off", "idle", "answered", "fetching",
                \* "gathering", "awaiting", "replying", "exiting", "done",
                \* "raised"
    hreplies,   \* the messages the handler has sent, in order
    hparts,     \* the reply_text calls it has still to make for hout
    hquery,     \* the callback data of the update, "none" for a command
    hanswered,  \* the number of query.answer() calls
    hedits,     \* the texts set by query.edit_message_text, in order
    hmessage,   \* whether the update has a message (update.message)
    rreadings,  \* the readings passed to get_station_reading
    rstation,   \* the station id passed to it
    rpc,        \* "off", "call", "done"
    rresult,    \* what it returned
    spc,        \* get_summary_stats on rreadings: "off", "call", "done"
    rstats,     \* what it returned
    nstations,  \* the station list passed to find_station_by_name
    ntoken,     \* the search name passed to it
    npc,        \* "off", "call", "done"
    nresult,    \* what it returned
    nsingle,    \* the station /windspeed resolves ntoken to on nstations
    nwind,      \* the station /wind resolves ntoken to on nstations
    dvalue,     \* the bearing passed to get_wind_direction_text
    dpc,        \* "off", "call", "done", "described"
    dresult,    \* what it returned
    dfrom,      \* the "Wind from ..." line the handler adds for dvalue
    session,    \* WeatherAPI.session: 0 is None, else the ClientSession
                \* object created by __aenter__
    sclosed,    \* the number of close() calls on that ClientSession
    client,     \* per source: the ClientSession object its requests were
                \* made on, 0 before the first request
    menv,       \* TELEGRAM_BOT_TOKEN in the environment of the process
    mpc,        \* main(): "off", "start", "validated", "built", "web",
                \* "polling", "raised"
    mapp,       \* whether the Application has been built
    mhandlers,  \* the handlers registered on it, in order
    mweb,       \* whether the keep-alive web thread has been started
    mpolling    \* whether run_polling has been called

fetchVars == <<mode, pc, attempt, timer, resp, ret, task, waits, slept, log,
               finished, pcC, results>>

handlerVars == <<hcmd, hargs, hfetch, hresults, hout, hpc, hreplies, hparts,
                 hquery, hanswered, hedits, hmessage>>

readVars == <<rreadings, rstation, rpc, rresult, spc, rstats>>

nameVars == <<nstations, ntoken, npc, nresult, nsingle, nwind>>

dirVars == <<dvalue, dpc, dresult, dfrom>>

apiVars == <<session, sclosed, client>>

mainVars == <<menv, mpc, mapp, mhandlers, mweb, mpolling>>

\* The variables of the calls of the pure functions.
pureVars == <<readVars, nameVars, dirVars>>

(***************************************************************************)
(* Values a call can produce.                                              *)
(***************************************************************************)
PendingV == [tag |-> "pending"]
NoneV == [tag |-> "none"]
ExcV == [tag |-> "exception"]
\* The decoded body of attempt k of source i, returned as the payload.
DataV(i, k, o) == [tag |-> "data", src |-> i, att |-> k, code |-> o.code]

(***************************************************************************)
(* What one attempt can meet: a timeout, another exception (connection     *)
(* error), or a response with an HTTP status and a body that is            *)
(* unparsable, a JSON value that is no object, or an object with or        *)
(* without a 'code' field.                                                 *)
(***************************************************************************)
Outcome(ev, status, parse, hascode, code) ==
    [ev |-> ev, status |-> status, parse |-> parse, hascode |-> hascode,
     code |-> code]

OTimeout == Outcome("timeout", 0, "none", FALSE, 0)
OConnError == Outcome("exception", 0, "none", FALSE, 0)
OHttp500 == Outcome("response", 500, "dict", TRUE, 0)
OUnparsable == Outcome("response", 200, "unparsable", FALSE, 0)
ONonDict == Outcome("response", 200, "nondict", FALSE, 0)
OSuccess == Outcome("response", 200, "dict", TRUE, 0)
OAppError == Outcome("response", 200, "dict", TRUE, 1)
ONoCode == Outcome("response", 200, "dict", FALSE, 0)

Outcomes == {OTimeout, OConnError, OHttp500, OUnparsable, ONonDict,
             OSuccess, OAppError, ONoCode}

\* One representative of each way an attempt can end, for the runs with
\* three concurrent fetches.
CoordOutcomes == {OTimeout, OHttp500, OSuccess, OAppError}

OutcomesIn(m) == IF m = "all" THEN CoordOutcomes ELSE Outcomes

(***************************************************************************)
(* WeatherAPI._make_request, one pass of the loop body.                    *)
(***************************************************************************)
\* The exception the try block raises on outcome o, "none" when it runs to
\* its end: session.get / response.json() raise on a timeout, a connection
\* error or an unparsable body; data.get raises when the body is no object.
Raises(o) ==
    IF o.ev = "timeout" THEN "TimeoutError"
    ELSE IF o.ev = "exception" THEN "Exception"
    ELSE IF o.status = 200 /\ o.parse = "unparsable" THEN "Exception"
    ELSE IF o.status = 200 /\ o.parse = "nondict" THEN "Exception"
    ELSE "none"

CaughtOnlyTimeout(e) == e = "TimeoutError"

\* except asyncio.TimeoutError / except Exception
Caught(e) == e \in {"TimeoutError", "Exception"}

CodeIsSuccessAlways(o) == TRUE

\* data.get('code') == 0
CodeIsSuccess(o) == o.hascode /\ o.code = 0

TryAttemptRetryAppError(o) ==
    IF Raises(o) # "none"
    THEN IF ~Caught(Raises(o)) THEN [act |-> "raise", log |-> "none"]
         ELSE IF Raises(o) = "TimeoutError"
              THEN [act |-> "next", log |-> "warning-timeout"]
              ELSE [act |-> "next", log |-> "error-exception"]
    ELSE IF o.status = 200
         THEN IF CodeIsSuccess(o)
              THEN [act |-> "return_data", log |-> "none"]
              ELSE [act |-> "next", log |-> "error-code"]
         ELSE [act |-> "next", log |-> "warning-http"]

\* A variant in which a 200 whose body cannot be decoded ends the call like
\* an application error does.
TryAttemptParseTerminal(o) ==
    IF Raises(o) # "none"
    THEN IF ~Caught(Raises(o)) THEN [act |-> "raise", log |-> "none"]
         ELSE IF Raises(o) = "TimeoutError"
              THEN [act |-> "next", log |-> "warning-timeout"]
              ELSE IF o.ev = "response"
              THEN [act |-> "return_none", log |-> "error-exception"]
              ELSE [act |-> "next", log |-> "error-exception"]
    ELSE IF o.status = 200
         THEN IF CodeIsSuccess(o)
              THEN [act |-> "return_data", log |-> "none"]
              ELSE [act |-> "return_none", log |-> "error-code"]
         ELSE [act |-> "next", log |-> "warning-http"]

\* What the loop body does with outcome o: return the body, return None,
\* fall through to the backoff ("next"), or let an exception escape.
TryAttempt(o) ==
    IF Raises(o) # "none"
    THEN IF ~Caught(Raises(o)) THEN [act |-> "raise", log |-> "none"]
         ELSE IF Raises(o) = "TimeoutError"
              THEN [act |-> "next", log |-> "warning-timeout"]
              ELSE [act |-> "next", log |-> "error-exception"]
    ELSE IF o.status = 200
         THEN IF CodeIsSuccess(o)
              THEN [act |-> "return_data", log |-> "none"]
              ELSE [act |-> "return_none", log |-> "error-code"]
         ELSE [act |-> "next", log |-> "warning-http"]

\* An outcome after which the loop goes on to the next attempt.
Transient(o) == TryAttempt(o).act = "next"

\* 2 ** n, n from 0 to 30
Pow2(n) ==
    <<1, 2, 4, 8, 16, 32, 64, 128, 256, 512, 1024, 2048, 4096, 8192, 16384,
      32768, 65536, 131072, 262144, 524288, 1048576, 2097152, 4194304,
      8388608, 16777216, 33554432, 67108864, 134217728, 268435456,
      536870912, 1073741824>>[n + 1]

BackoffLinear(a) == 2 * a

\* asyncio.sleep(2 ** attempt)
Backoff(a) == Pow2(a)

\* if attempt < MAX_RETRIES - 1
SleepsAfter(a) == a < MAX_RETRIES - 1

BlockedBySleeper(i) == \E j \in Sources \ {i} : pc[j] = "sleep"

\* await asyncio.sleep suspends only the calling task: a sleeping fetch
\* never keeps another fetch from running.
Blocked(i) == FALSE

AppendLog(l, entry) == IF entry = "none" THEN l ELSE Append(l, entry)

\* self.session.get(url) of attempt attempt[i] (line 40): the request
\* goes out on the session of the WeatherAPI object, and the task waits for
\* the response while the other tasks run.
Request(i) ==
    /\ pc[i] = "request"
    /\ ~Blocked(i)
    /\ pc' = [pc EXCEPT ![i] = "waiting"]
    /\ client' = [client EXCEPT ![i] = session]
    /\ UNCHANGED <<mode, attempt, timer, resp, ret, task, waits, slept, log,
                   finished, pcC, results>>
    /\ UNCHANGED <<session, sclosed>>
    /\ UNCHANGED <<handlerVars, pureVars, mainVars>>

\* The request of source i meets outcome o (lines 40-59): the handling of
\* the response or the exception and, after a failed last attempt, the
\* final return None.
Response(i) ==
    /\ pc[i] = "waiting"
    /\ ~Blocked(i)
    /\ \E o \in OutcomesIn(mode) :
         LET r == TryAttempt(o)
             fin == IF r.act = "return_data" THEN DataV(i, attempt[i], o)
                    ELSE IF r.act = "return_none" THEN NoneV
                    ELSE IF r.act = "raise" THEN ExcV
                    ELSE NoneV
         IN  /\ resp' = [resp EXCEPT ![i] = Append(@, o)]
             /\ log' = [log EXCEPT ![i] = AppendLog(@, r.log)]
             /\ IF r.act = "next" /\ SleepsAfter(attempt[i])
                THEN /\ pc' = [pc EXCEPT ![i] = "sleep"]
                     /\ timer' = [timer EXCEPT ![i] = Backoff(attempt[i])]
                     /\ UNCHANGED <<ret, task, attempt, finished>>
                ELSE IF r.act = "next" /\ attempt[i] + 1 < MAX_RETRIES
                THEN /\ pc' = [pc EXCEPT ![i] = "request"]
                     /\ attempt' = [attempt EXCEPT ![i] = @ + 1]
                     /\ UNCHANGED <<ret, task, timer, finished>>
                ELSE /\ pc' = [pc EXCEPT ![i] = "done"]
                     /\ ret' = [ret EXCEPT ![i] = fin]
                     /\ task' = [task EXCEPT ![i] = fin]
                     /\ finished' = Append(finished, i)
                     /\ UNCHANGED <<timer, attempt>>
    /\ UNCHANGED <<mode, waits, slept, pcC, results>>
    /\ UNCHANGED <<apiVars, handlerVars, pureVars, mainVars>>

\* One time-unit passes; every fetch in backoff has one unit less to wait.
\* A sleep that has run out wakes before time moves on.
Tick ==
    /\ \E i \in Sources : pc[i] = "sleep"
    /\ \A i \in Sources : pc[i] = "sleep" => timer[i] > 0
    /\ timer' = [i \in Sources |->
                    IF pc[i] = "sleep" THEN timer[i] - 1 ELSE timer[i]]
    /\ slept' = [i \in Sources |->
                    IF pc[i] = "sleep" THEN slept[i] + 1 ELSE slept[i]]
    /\ UNCHANGED <<mode, pc, attempt, resp, ret, task, waits, log, finished,
                   pcC, results>>
    /\ UNCHANGED <<apiVars, handlerVars, pureVars, mainVars>>

\* asyncio.sleep(2 ** attempt) is over: the loop moves to the next attempt.
Wake(i) ==
    /\ pc[i] = "sleep"
    /\ timer[i] = 0
    /\ ~Blocked(i)
    /\ waits' = [waits EXCEPT ![i] = Append(@, Backoff(attempt[i]))]
    /\ IF attempt[i] + 1 < MAX_RETRIES
       THEN /\ pc' = [pc EXCEPT ![i] = "request"]
            /\ attempt' = [attempt EXCEPT ![i] = @ + 1]
            /\ UNCHANGED <<ret, task, finished>>
       ELSE /\ pc' = [pc EXCEPT ![i] = "done"]
            /\ ret' = [ret EXCEPT ![i] = NoneV]
            /\ task' = [task EXCEPT ![i] = NoneV]
            /\ finished' = Append(finished, i)
            /\ UNCHANGED attempt
    /\ UNCHANGED <<mode, timer, resp, slept, log, pcC, results>>
    /\ UNCHANGED <<apiVars, handlerVars, pureVars, mainVars>>

(***************************************************************************)
(* WeatherAPI.get_all_weather_data                                         *)
(***************************************************************************)
\* A get_*_data coroutine that raises instead of returning.  _make_request
\* swallows every exception itself, so this is a fault injected around it
\* (a fetch method that throws), which gather(return_exceptions=True)
\* hands back as that task's result.
FetchThrows(i) ==
    /\ mode = "all"
    /\ pc[i] = "request"
    /\ attempt[i] = 0
    /\ pc' = [pc EXCEPT ![i] = "done"]
    /\ task' = [task EXCEPT ![i] = ExcV]
    /\ finished' = Append(finished, i)
    /\ UNCHANGED <<mode, attempt, timer, resp, ret, waits, slept, log, pcC,
                   results>>
    /\ UNCHANGED <<apiVars, handlerVars, pureVars, mainVars>>

JoinReadyAny == \E i \in Sources : task[i].tag # "pending"

\* await asyncio.gather(*tasks, return_exceptions=True) resumes once every
\* task has an outcome.
JoinReady == \A i \in Sources : task[i].tag # "pending"

\* isinstance(result, Exception) -> None, else the result itself
ProcessResult(r) == IF r.tag = "exception" THEN NoneV ELSE r

SlotOrderByCompletion(i) == finished[i]

\* results[i] is the outcome of tasks[i]: gather keeps the order of its
\* arguments, and the loop appends in that order.
SlotOrder(i) == i

\* Lines 86-97: gather is over, the results are processed and returned.
Join ==
    /\ pcC = "gather"
    /\ JoinReady
    /\ results' = [i \in Sources |-> ProcessResult(task[SlotOrder(i)])]
    /\ pcC' = "returned"
    /\ UNCHANGED <<mode, pc, attempt, timer, resp, ret, task, waits, slept,
                   log, finished>>
    /\ UNCHANGED <<apiVars, handlerVars, pureVars, mainVars>>

(***************************************************************************)
(* Strings are sequences of one-character strings, so that lower(),        *)
(* upper(), the substring test and the comparison of names are computed.   *)
(***************************************************************************)
UpperChars == <<"A", "B", "C", "D", "E", "F", "G", "H", "I", "J", "K", "L", "M", "N", "O", "P", "Q", "R", "S", "T", "U", "V", "W", "X", "Y", "Z">>

LowerChars == <<"a", "b", "c", "d", "e", "f", "g", "h", "i", "j", "k", "l", "m", "n", "o", "p", "q", "r", "s", "t", "u", "v", "w", "x", "y", "z">>

\* The characters in the order of their code points.
AsciiOrder ==
    <<"\t", "\n", "\r", " ", "'", "(", ")", "*", "-", ".", "/">>
    \o <<"0", "1", "2", "3", "4", "5", "6", "7", "8", "9">> \o <<":">>
    \o UpperChars \o <<"_">> \o LowerChars

LowerChar(c) ==
    IF \E k \in 1..Len(UpperChars) : UpperChars[k] = c
    THEN LowerChars[CHOOSE k \in 1..Len(UpperChars) : UpperChars[k] = c]
    ELSE c

UpperChar(c) ==
    IF \E k \in 1..Len(LowerChars) : LowerChars[k] = c
    THEN UpperChars[CHOOSE k \in 1..Len(LowerChars) : LowerChars[k] = c]
    ELSE c

\* str.lower()
Lower(s) == [k \in 1..Len(s) |-> LowerChar(s[k])]

\* str.upper()
Upper(s) == [k \in 1..Len(s) |-> UpperChar(s[k])]

\* a in b, for strings
IsSubstring(a, b) ==
    \E k \in 0..(Len(b) - Len(a)) : SubSeq(b, k + 1, k + Len(a)) = a

Ord(c) == CHOOSE k \in 1..Len(AsciiOrder) : AsciiOrder[k] = c

\* a < b, for strings: the first place where they differ decides, and a
\* string is greater than each of its proper prefixes.
StrLess(a, b) ==
    LET n == IF Len(a) < Len(b) THEN Len(a) ELSE Len(b)
        differ == { k \in 1..n : a[k] # b[k] }
    IN  IF differ = {} THEN Len(a) < Len(b)
        ELSE LET first == CHOOSE k \in differ : \A j \in differ : k <= j
             IN  Ord(a[first]) < Ord(b[first])

\* ' '.join(words)
RECURSIVE JoinSpace(_)
JoinSpace(words) ==
    IF words = <<>> THEN <<>>
    ELSE IF Len(words) = 1 THEN Head(words)
    ELSE Head(words) \o <<" ">> \o JoinSpace(Tail(words))

\* str.strip(): the whitespace at both ends is removed, which in the
\* alphabet of the model is the blank, the tab, the line feed and the
\* carriage return.
Strip(s) ==
    LET kept == { k \in 1..Len(s) : s[k] \notin {" ", "\t", "\n", "\r"} }
    IN  IF kept = {} THEN <<>>
        ELSE SubSeq(s, CHOOSE k \in kept : \A j \in kept : k <= j,
                       CHOOSE k \in kept : \A j \in kept : k >= j)

(***************************************************************************)
(* config.STATION_ALIASES                                                  *)
(***************************************************************************)
STATION_ALIASES ==
    { <<<<"m", "a", "r", "i", "n", "a">>,
        <<"S", "1", "0", "8">>>>,
      <<<<"s", "e", "n", "t", "o", "s", "a">>,
        <<"S", "6", "0">>>>,
      <<<<"c", "h", "a", "n", "g", "i">>,
        <<"S", "1", "0", "7">>>>,
      <<<<"j", "u", "r", "o", "n", "g">>,
        <<"S", "3", "3">>>>,
      <<<<"w", "o", "o", "d", "l", "a", "n", "d", "s">>,
        <<"S", "1", "0", "4">>>>,
      <<<<"t", "u", "a", "s">>,
        <<"S", "1", "1", "5">>>>,
      <<<<"c", "l", "e", "m", "e", "n", "t", "i">>,
        <<"S", "5", "0">>>>,
      <<<<"b", "i", "s", "h", "a", "n">>,
        <<"S", "2", "1", "7">>>>,
      <<<<"t", "a", "m", "p", "i", "n", "e", "s">>,
        <<"S", "8", "4">>>>,
      <<<<"p", "u", "n", "g", "g", "o", "l">>,
        <<"S", "8", "1">>>>,
      <<<<"y", "i", "s", "h", "u", "n">>,
        <<"S", "2", "0", "9">>>>,
      <<<<"h", "o", "u", "g", "a", "n", "g">>,
        <<"S", "2", "2", "1">>>>,
      <<<<"p", "a", "s", "i", "r", " ", "r", "i", "s">>,
        <<"S", "9", "4">>>>,
      <<<<"b", "u", "k", "i", "t", " ", "t", "i", "m", "a", "h">>,
        <<"S", "9", "0">>>>,
      <<<<"t", "o", "a", " ", "p", "a", "y", "o", "h">>,
        <<"S", "8", "8">>>>,
      <<<<"a", "n", "g", " ", "m", "o", " ", "k", "i", "o">>,
        <<"S", "1", "0", "9">>>>,
      <<<<"g", "e", "y", "l", "a", "n", "g">>,
        <<"S", "2", "1", "5">>>>,
      <<<<"o", "r", "c", "h", "a", "r", "d">>,
        <<"S", "7", "9">>>>,
      <<<<"s", "c", "o", "t", "t", "s">>,
        <<"S", "1", "1", "1">>>> }

\* STATION_ALIASES.get(key): the station code, or None (here the empty
\* string, which is as false as None in the test that follows).
AliasGet(key) ==
    IF \E p \in STATION_ALIASES : p[1] = key
    THEN (CHOOSE p \in STATION_ALIASES : p[1] = key)[2]
    ELSE <<>>

(***************************************************************************)
(* WeatherAPI: station and reading lookup                                  *)
(***************************************************************************)
Station(id, name) == [id |-> id, name |-> name]

\* The None a lookup returns when nothing matches.
NoStation == [none |-> TRUE]

\* A reading value: a number (in tenths of the unit) or None.
Val(v) == [some |-> TRUE, v |-> v]

NoneVal == [some |-> FALSE, v |-> 0]

\* A whole number that the feed writes as a float (350.0): it is the
\* number Val(v) is, and is printed with its fraction.
ValF(v) == [some |-> TRUE, v |-> v, float |-> TRUE]

DataPoint(stationId, value) == [stationId |-> stationId, value |-> value]

Reading(timestamp, data) == [timestamp |-> timestamp, data |-> data]

\* search_name.lower() in station['name'].lower()
NameMatch(search_name, name) == IsSubstring(Lower(search_name), Lower(name))

\* find_station_by_name: the first station whose name contains the token.
\* A variant that prefers a station whose name is the token, wherever it
\* stands in the list.
find_station_by_name_exact(stations, search_name) ==
    LET hits == { k \in 1..Len(stations) :
                    NameMatch(search_name, stations[k].name) }
        exact == { k \in hits :
                     Lower(stations[k].name) = Lower(search_name) }
        First(S) == CHOOSE k \in S : \A j \in S : k <= j
    IN  IF hits = {} THEN NoStation
        ELSE IF exact # {} THEN stations[First(exact)]
        ELSE stations[First(hits)]

RECURSIVE find_station_by_name(_, _)
find_station_by_name(stations, search_name) ==
    IF stations = <<>> THEN NoStation
    ELSE IF NameMatch(search_name, Head(stations).name) THEN Head(stations)
    ELSE find_station_by_name(Tail(stations), search_name)

\* station['id'].upper() == station_id.upper()
IdMatch(id, station_id) == Upper(id) = Upper(station_id)

\* find_station_by_id: the first station with that id.
RECURSIVE find_station_by_id(_, _)
find_station_by_id(stations, station_id) ==
    IF stations = <<>> THEN NoStation
    ELSE IF IdMatch(Head(stations).id, station_id) THEN Head(stations)
    ELSE find_station_by_id(Tail(stations), station_id)

\* The scan of one reading's data points for a station id.
RECURSIVE ScanData(_, _)
ScanData(data, station_id) ==
    IF data = <<>> THEN NoneVal
    ELSE IF Head(data).stationId = station_id THEN Head(data).value
    ELSE ScanData(Tail(data), station_id)

get_station_reading_last(readings, station_id) ==
    IF readings = <<>> THEN NoneVal
    ELSE ScanData(readings[Len(readings)].data, station_id)

\* get_station_reading: the station's value in readings[0], or None.
get_station_reading(readings, station_id) ==
    IF readings = <<>> THEN NoneVal
    ELSE ScanData(readings[1].data, station_id)

\* min(values), max(values), sum(values)
RECURSIVE MinSeq(_)
MinSeq(q) ==
    IF Len(q) = 1 THEN q[1]
    ELSE IF Head(q) <= MinSeq(Tail(q)) THEN Head(q) ELSE MinSeq(Tail(q))

RECURSIVE MaxSeq(_)
MaxSeq(q) ==
    IF Len(q) = 1 THEN q[1]
    ELSE IF Head(q) >= MaxSeq(Tail(q)) THEN Head(q) ELSE MaxSeq(Tail(q))

(***************************************************************************)
(* The numbers of the feed are Python floats: 53 significant bits, and     *)
(* every conversion, sum and quotient rounded to the nearest float, a tie  *)
(* to the one with the even last bit.  With the values in tenths, a float  *)
(* is written exactly as (d * 2^62 + e + r / 2^t) / (c * 2^62): d / c is   *)
(* the decimal number it stands for (c is 10, or 10 * n after a division   *)
(* by n) and e the rounding error it carries, in units of 2^-62 / c.  The  *)
(* part r / 2^t is 0 but in the quotient of a sum whose decimal part is 0  *)
(* (values that cancel in decimal and leave their rounding errors, as in   *)
(* 0.1 + 0.2 - 0.3): that quotient, e / (c * 2^62), is rounded too, at a   *)
(* place far below the unit of e.  Decimal quotients from 2^-10 to 2^17,   *)
(* and errors from 2^-12 to 2^28 units, have their place in this form.     *)
(***************************************************************************)
\* 2^g modulo m, g up to 72, as the product of three powers of at most
\* 30 bits
PowMod(g, m) ==
    LET low == IF g > 21 THEN 21 ELSE g
        mid == IF g - low > 21 THEN 21 ELSE g - low
        high == g - low - mid
    IN  ((((Pow2(low) % m) * (Pow2(mid) % m)) % m) * (Pow2(high) % m)) % m

\* The exponent of the quotient d / c, d > 0: the k with
\* 2^k <= d / c < 2^(k + 1).
Exponent(d, c) ==
    CHOOSE k \in -10..16 :
        IF k >= 0 THEN c * Pow2(k) <= d /\ d < c * Pow2(k + 1)
        ELSE c <= d * Pow2(0 - k) /\ d * Pow2(0 - k - 1) < c

\* The exponent of the floats around (a * 2^62 + b) / (c * 2^62), a > 0
\* with a / c of exponent k: just under a power of two it is one less.
FloatExponent(a, b, c, k) ==
    LET power == IF k >= 0 THEN a = c * Pow2(k) ELSE a * Pow2(0 - k) = c
    IN  IF power /\ b < 0 THEN k - 1 ELSE k

\* The float next to the number that lies `over` units above a float of
\* last bit `odd`, the floats being `step` units apart: the nearer one,
\* and of two equally near the one whose last bit is even.  The result is
\* the number s * d / c with the error it then has.
NearestOf(s, d, b, c, step, over, odd) ==
    LET r == over % step
        last == odd + (over \div step)
        down == 2 * r < step \/ (2 * r = step /\ last % 2 = 0)
    IN  [d |-> d, e |-> s * (IF down THEN b - r ELSE b + step - r), c |-> c,
         r |-> 0, t |-> 0]

\* The float nearest to s * (a * 2^62 + b) / (c * 2^62), a > 0, among the
\* floats of exponent ex.  These are 2^(ex - 52) apart, which is
\* c * 2^(10 + ex) units; m is the number of such steps in a / c modulo
\* 2 * c, and tells the remainder and the last bit.
NearestAt(s, a, b, c, ex) ==
    LET m == ((a % (2 * c)) * PowMod(52 - ex, 2 * c)) % (2 * c)
    IN  NearestOf(s, s * a, b, c, c * Pow2(10 + ex),
                  Pow2(10 + ex) * (m % c) + b, IF m >= c THEN 1 ELSE 0)

\* The float nearest to (d * 2^62 + e) / (c * 2^62), d # 0.
Nearest(d, e, c) ==
    LET s == IF d < 0 THEN 0 - 1 ELSE 1
    IN  NearestAt(s, s * d, s * e, c,
                  FloatExponent(s * d, s * e, c, Exponent(s * d, c)))

\* The exponent of the quotient a / c of an error a > 0: the k with
\* 2^k <= a / c < 2^(k + 1).
TinyExponent(a, c) ==
    IF a >= c
    THEN CHOOSE k \in 0..28 : Pow2(k) <= a \div c /\ a \div c < Pow2(k + 1)
    ELSE CHOOSE k \in -12..-1 :
             c <= a * Pow2(0 - k) /\ a * Pow2(0 - k - 1) < c

\* The float s * (a + r / 2^t) / (c * 2^62): the number s * a / (c * 2^62)
\* with the rounding r / 2^t in units.
TinyOf(s, a, c, t, r) ==
    [d |-> 0, e |-> s * a, c |-> c, r |-> s * r, t |-> IF r = 0 THEN 0 ELSE t]

\* The whole number next to a * 2^t / c, of which low is the numerator
\* a * 2^t modulo 2 * c: low tells the remainder and the last bit.  The
\* nearer whole number is taken, and of two equally near the even one.
TinyAt(s, a, c, t, low) ==
    IF 2 * (low % c) < c \/ (2 * (low % c) = c /\ low < c)
    THEN TinyOf(s, a, c, t, 0 - (low % c))
    ELSE TinyOf(s, a, c, t, c - (low % c))

\* The float nearest to s * a / (c * 2^62), a > 0, where a * 2^t / c has 53
\* bits: that quotient is rounded to a whole number.
NearestTiny(s, a, c, t) ==
    TinyAt(s, a, c, t, ((a % (2 * c)) * PowMod(t, 2 * c)) % (2 * c))

\* The float nearest to e / (c * 2^62), e # 0.
NearestError(s, a, c) == NearestTiny(s, a, c, 52 - TinyExponent(a, c))

\* The rounding of one operation's exact result x, a number
\* (d * 2^62 + e) / (c * 2^62).
RoundFloat(x) ==
    IF x.d # 0 THEN Nearest(x.d, x.e, x.c)
    ELSE IF x.e = 0 THEN x
    ELSE IF x.e < 0 THEN NearestError(0 - 1, 0 - x.e, x.c)
    ELSE NearestError(1, x.e, x.c)

\* The numbers (d * 2^62 + e + r / 2^t) / (c * 2^62).
Float == [d : Int, e : Int, c : Int, r : Int, t : Int]

\* total + value, total an int or a float, value a number of the feed: v
\* tenths are the float nearest to v / 10 (a whole number is itself, as an
\* int and as a float).
FloatAdd[total \in Float, v \in Int] ==
    LET value == RoundFloat([d |-> v, e |-> 0, c |-> 10, r |-> 0, t |-> 0])
    IN  RoundFloat([d |-> total.d + value.d, e |-> total.e + value.e,
                    c |-> 10, r |-> 0, t |-> 0])

\* The values added to total one after the other, in order.  (The list is
\* taken by halves, first the left and then the right: the additions are
\* the same, and the evaluation stays shallow for a long list.)
FloatFold[total \in Float, values \in Seq(Int)] ==
    IF values = <<>> THEN total
    ELSE IF Len(values) = 1 THEN FloatAdd[total, values[1]]
    ELSE LET half == Len(values) \div 2
         IN  FloatFold[FloatFold[total, SubSeq(values, 1, half)],
                       SubSeq(values, half + 1, Len(values))]

\* sum(values): from the int 0 on, each value is added and the sum
\* rounded.
FloatSum(values) ==
    FloatFold[[d |-> 0, e |-> 0, c |-> 10, r |-> 0, t |-> 0], values]

\* sum(values) / len(values): the float
\* (num * 2^62 + err + rem / 2^shift) / (10 * den * 2^62).
Average(values) ==
    LET total == FloatSum(values)
        avg == RoundFloat([d |-> total.d, e |-> total.e,
                           c |-> 10 * Len(values), r |-> 0, t |-> 0])
    IN  [num |-> avg.d, den |-> Len(values), err |-> avg.e,
         rem |-> avg.r, shift |-> avg.t]

\* A variant that keeps the values that are true: it also drops 0.
RECURSIVE NonNoneValuesTruthy(_)
NonNoneValuesTruthy(data) ==
    IF data = <<>> THEN <<>>
    ELSE IF Head(data).value.some /\ Head(data).value.v # 0
         THEN <<Head(data).value.v>> \o NonNoneValuesTruthy(Tail(data))
         ELSE NonNoneValuesTruthy(Tail(data))

\* The values of a reading's data points that are not None, in order.
RECURSIVE NonNoneValues(_)
NonNoneValues(data) ==
    IF data = <<>> THEN <<>>
    ELSE IF Head(data).value.some
         THEN <<Head(data).value.v>> \o NonNoneValues(Tail(data))
         ELSE NonNoneValues(Tail(data))

\* {"min": 0, "max": 0, "avg": 0, "count": 0}
ZeroStats == [min |-> 0, max |-> 0,
              avg |-> [num |-> 0, den |-> 1, err |-> 0, rem |-> 0, shift |-> 0],
              count |-> 0]

\* get_summary_stats
get_summary_stats(readings) ==
    IF readings = <<>> THEN ZeroStats
    ELSE LET values == NonNoneValues(readings[1].data)
         IN  IF values = <<>> THEN ZeroStats
             ELSE [min |-> MinSeq(values), max |-> MaxSeq(values),
                   avg |-> Average(values),
                   count |-> Len(values)]

\* format_timestamp: a timestamp that parses as ISO-8601 is rendered in the
\* display format, any other string is returned as it is.
format_timestamp(ts) ==
    IF ts.iso THEN [shown |-> "display", t |-> ts.t, year |-> ts.year]
    ELSE [shown |-> "raw", t |-> ts.t, raw |-> ts.raw]

(***************************************************************************)
(* config.get_wind_direction_text.  Bearings are in tenths of a degree.    *)
(***************************************************************************)
Deg(n) == 10 * n

\* WIND_DIRECTIONS, in the order of the dict.
WIND_DIRECTIONS ==
    << [deg |-> Deg(0), label |-> "N"], [deg |-> Deg(45), label |-> "NE"],
       [deg |-> Deg(90), label |-> "E"], [deg |-> Deg(135), label |-> "SE"],
       [deg |-> Deg(180), label |-> "S"], [deg |-> Deg(225), label |-> "SW"],
       [deg |-> Deg(270), label |-> "W"], [deg |-> Deg(315), label |-> "NW"] >>

AbsDiff(x, y) == IF x >= y THEN x - y ELSE y - x

\* min(WIND_DIRECTIONS.keys(), key=lambda x: abs(x - degrees)): the index
\* of the first key at the least distance.
ClosestIndex(degrees) ==
    CHOOSE k \in 1..Len(WIND_DIRECTIONS) :
        /\ \A j \in 1..Len(WIND_DIRECTIONS) :
              AbsDiff(WIND_DIRECTIONS[k].deg, degrees)
                  <= AbsDiff(WIND_DIRECTIONS[j].deg, degrees)
        /\ \A j \in 1..(k - 1) :
              AbsDiff(WIND_DIRECTIONS[j].deg, degrees)
                  > AbsDiff(WIND_DIRECTIONS[k].deg, degrees)

\* f"{a}-{b}"
Composite(a, b) == <<a, b>>

\* The for loop over the sorted keys, from index i on.
RECURSIVE InterpolateFrom(_, _)
InterpolateFrom(i, degrees) ==
    IF i > Len(WIND_DIRECTIONS)
    THEN Composite(WIND_DIRECTIONS[Len(WIND_DIRECTIONS)].label,
                   WIND_DIRECTIONS[1].label)
    ELSE IF degrees < WIND_DIRECTIONS[i].deg
         THEN IF i = 1
              THEN Composite(WIND_DIRECTIONS[Len(WIND_DIRECTIONS)].label,
                             WIND_DIRECTIONS[i].label)
              ELSE Composite(WIND_DIRECTIONS[i - 1].label,
                             WIND_DIRECTIONS[i].label)
         ELSE InterpolateFrom(i + 1, degrees)

\* A bearing that is no multiple of a tenth of a degree: the float
\* s * 1e-17, s being 1 or -1.  Its v is the tenths it is nearest to.
TinyVal(s) == [some |-> TRUE, v |-> 0, tiny |-> s]

\* degrees % 360 on floats, in tenths of a degree.  Python takes
\* fmod(degrees, 360), which is exact, and adds 360 to a negative
\* remainder; that sum is rounded to the nearest float.  For a remainder of
\* -1e-17 the sum rounds to 360.0 itself, so the result is not below 360.
\* A remainder of 1e-17 is kept; in the lookup it compares as 0.0 does
\* (|x - 1e-17| rounds to x for every key x > 0, and key 0 is the nearest).
FloatMod360(value) ==
    IF "tiny" \in DOMAIN value
    THEN IF value.tiny < 0 THEN Deg(360) ELSE 0
    ELSE value.v % Deg(360)

\* A variant that takes the closest anchor only below 22.5 degrees.
get_wind_direction_text_strict(value) ==
    IF ~value.some THEN <<"Unknown">>
    ELSE LET degrees == FloatMod360(value)
             closest == WIND_DIRECTIONS[ClosestIndex(degrees)]
         IN  IF 2 * AbsDiff(degrees, closest.deg) < Deg(45)
             THEN <<closest.label>>
             ELSE InterpolateFrom(1, degrees)

\* get_wind_direction_text(degrees), degrees a value or None.  A plain
\* label is <<label>>, a hyphenated one <<first, second>>.
get_wind_direction_text(value) ==
    IF ~value.some THEN <<"Unknown">>
    ELSE LET degrees == FloatMod360(value)
             closest == WIND_DIRECTIONS[ClosestIndex(degrees)]
         IN  IF 2 * AbsDiff(degrees, closest.deg) <= Deg(45)
             THEN <<closest.label>>
             ELSE InterpolateFrom(1, degrees)

(***************************************************************************)
(* bot_handlers.py: the /rainfall, /windspeed and /winddirection handlers  *)
(***************************************************************************)
FetchingReply(cmd) == [kind |-> "fetching", cmd |-> cmd]

\* "Unable to fetch ... data. Please try again later."
UnableReply(cmd) == [kind |-> "unable", cmd |-> cmd]

\* "Station not found: '<query>'"
NotFoundReply(cmd, query) == [kind |-> "not_found", cmd |-> cmd,
                              query |-> query]

\* The reply of the except clause: "Failed to fetch ... data."
FailedReply(cmd) == [kind |-> "failed", cmd |-> cmd]

\* The try block ended in an exception (KeyError, IndexError, TypeError)
\* instead of a reply.
Raised == [kind |-> "raise"]

\* A decoded body {"code": 0, ...} that has no 'data' key: _make_request
\* returns it as a payload, and payload['data'] raises KeyError.
MalformedV == [tag |-> "malformed"]

\* ' '.join(context.args).strip() if context.args else None.  None is the
\* empty string here: the handlers only test the query for truth.
StationQuery(args) == IF args = <<>> THEN <<>> ELSE Strip(JoinSpace(args))

\* station_query.lower() == "all"
IsAll(query) == Lower(query) = <<"a", "l", "l">>

ResolveStationNameFirst(stations, station_query) ==
    LET byName == find_station_by_name(stations, station_query)
        station_id == AliasGet(Lower(station_query))
    IN  IF byName # NoStation THEN byName
        ELSE IF station_id # <<>>
             THEN find_station_by_id(stations, station_id)
             ELSE find_station_by_id(stations, station_query)

\* The station-query branch: the alias table decides; a token that is an
\* alias is looked up by the aliased id only, any other token by name and
\* then by id.
ResolveStation(stations, station_query) ==
    LET station_id == AliasGet(Lower(station_query))
    IN  IF station_id # <<>>
        THEN find_station_by_id(stations, station_id)
        ELSE LET byName == find_station_by_name(stations, station_query)
             IN  IF byName # NoStation THEN byName
                 ELSE find_station_by_id(stations, station_query)

\* The (name, id, value) rows of the data points whose station is listed.
RECURSIVE AllRows(_, _)
AllRows(data, stations) ==
    IF data = <<>> THEN <<>>
    ELSE LET station == find_station_by_id(stations, Head(data).stationId)
             rest == AllRows(Tail(data), stations)
         IN  IF station # NoStation
             THEN <<[name |-> station.name, id |-> station.id,
                     value |-> Head(data).value]>> \o rest
             ELSE rest

\* The rows of the data points that have a value and a listed station.
RECURSIVE ValueRows(_, _)
ValueRows(data, stations) ==
    IF data = <<>> THEN <<>>
    ELSE LET station == find_station_by_id(stations, Head(data).stationId)
             rest == ValueRows(Tail(data), stations)
         IN  IF Head(data).value.some /\ station # NoStation
             THEN <<[name |-> station.name, id |-> station.id,
                     value |-> Head(data).value]>> \o rest
             ELSE rest

\* key=lambda x: x[2] if x[2] is not None else 0
KeyOrZero(row) == IF row.value.some THEN row.value.v ELSE 0

\* list.sort(key=..., reverse=True): by descending key, rows with equal
\* keys in their original order.
RECURSIVE InsertDesc(_, _)
InsertDesc(acc, r) ==
    IF acc = <<>> THEN <<r>>
    ELSE IF KeyOrZero(Head(acc)) < KeyOrZero(r) THEN <<r>> \o acc
    ELSE <<Head(acc)>> \o InsertDesc(Tail(acc), r)

RECURSIVE SortDesc(_)
SortDesc(rows) ==
    IF rows = <<>> THEN <<>>
    ELSE InsertDesc(SortDesc(SubSeq(rows, 1, Len(rows) - 1)),
                    rows[Len(rows)])

\* list.sort(key=lambda x: x[0]): by ascending name, stable.
RECURSIVE InsertByName(_, _)
InsertByName(acc, r) ==
    IF acc = <<>> THEN <<r>>
    ELSE IF StrLess(r.name, Head(acc).name) THEN <<r>> \o acc
    ELSE <<Head(acc)>> \o InsertByName(Tail(acc), r)

RECURSIVE SortByName(_)
SortByName(rows) ==
    IF rows = <<>> THEN <<>>
    ELSE InsertByName(SortByName(SubSeq(rows, 1, Len(rows) - 1)),
                      rows[Len(rows)])

\* station_values[:3]
Top3(rows) == SubSeq(rows, 1, IF Len(rows) < 3 THEN Len(rows) ELSE 3)

\* The row of a wind-direction listing: the compass text is added when the
\* station has a value.
WithDirection(rows) ==
    [k \in 1..Len(rows) |->
        [name |-> rows[k].name, id |-> rows[k].id, value |-> rows[k].value,
         text |-> IF rows[k].value.some
                  THEN get_wind_direction_text(rows[k].value)
                  ELSE <<"No data">>]]

\* Rainfall intensity of a reading, in tenths of a millimetre.
RainfallCategory(reading) ==
    IF reading = 0 THEN "No rainfall detected"
    ELSE IF reading < 25 THEN "Light rainfall"
    ELSE IF reading < 100 THEN "Moderate rainfall"
    ELSE IF reading < 500 THEN "Heavy rainfall"
    ELSE "Very heavy rainfall"

\* Wind category of a reading, in tenths of a knot.
WindCategory(reading) ==
    IF reading < 10 THEN "Calm"
    ELSE IF reading < 70 THEN "Light breeze"
    ELSE IF reading < 170 THEN "Moderate breeze"
    ELSE IF reading < 280 THEN "Strong breeze"
    ELSE "Very strong wind"

\* The handler's own threshold chain, in tenths of a degree.
WindFrom(reading) ==
    IF 3375 <= reading \/ reading < 225 THEN "North"
    ELSE IF 225 <= reading /\ reading < 675 THEN "Northeast"
    ELSE IF 675 <= reading /\ reading < 1125 THEN "East"
    ELSE IF 1125 <= reading /\ reading < 1575 THEN "Southeast"
    ELSE IF 1575 <= reading /\ reading < 2025 THEN "South"
    ELSE IF 2025 <= reading /\ reading < 2475 THEN "Southwest"
    ELSE IF 2475 <= reading /\ reading < 2925 THEN "West"
    ELSE IF 2925 <= reading /\ reading < 3375 THEN "Northwest"
    ELSE "none"

\* A data point whose value is None: data_point['value'] > 0 raises on it.
HasNoneValue(data) == \E k \in 1..Len(data) : ~data[k].value.some

\* The rows of the data points with a value above 0 and a listed station.
PositiveRows(data, stations) ==
    SelectSeq(ValueRows(data, stations), LAMBDA r : r.value.v > 0)

\* The 'all' branch of the three handlers; readings[0] raises IndexError
\* when there is no reading.
AllBranch(cmd, stations, readings) ==
    IF readings = <<>> THEN Raised
    ELSE LET rows == AllRows(readings[1].data, stations)
         IN  [kind |-> "all", cmd |-> cmd,
              time |-> format_timestamp(readings[1].timestamp),
              rows |-> IF cmd = "winddirection"
                       THEN WithDirection(SortByName(rows))
                       ELSE SortDesc(rows)]

\* A variant that answers 'Station not found' for a station without a
\* value in the latest reading.
StationBranchMissOnNoData(cmd, stations, readings, station_query) ==
    LET station == ResolveStation(stations, station_query)
    IN  IF station = NoStation THEN NotFoundReply(cmd, station_query)
        ELSE IF readings = <<>> THEN Raised
        ELSE IF ~get_station_reading(readings, station.id).some
        THEN NotFoundReply(cmd, station_query)
        ELSE LET reading == get_station_reading(readings, station.id)
             IN  [kind |-> "station", cmd |-> cmd,
                  name |-> station.name, id |-> station.id,
                  time |-> format_timestamp(readings[1].timestamp),
                  reading |-> reading,
                  text |-> IF cmd = "winddirection"
                           THEN get_wind_direction_text(reading)
                           ELSE <<>>,
                  note |-> IF cmd = "rainfall"
                           THEN RainfallCategory(reading.v)
                           ELSE IF cmd = "windspeed"
                                THEN WindCategory(reading.v)
                           ELSE WindFrom(reading.v)]

\* The station-query branch of the three handlers.
StationBranch(cmd, stations, readings, station_query) ==
    LET station == ResolveStation(stations, station_query)
    IN  IF station = NoStation THEN NotFoundReply(cmd, station_query)
        ELSE IF readings = <<>> THEN Raised
        ELSE LET reading == get_station_reading(readings, station.id)
             IN  [kind |-> "station", cmd |-> cmd,
                  name |-> station.name, id |-> station.id,
                  time |-> format_timestamp(readings[1].timestamp),
                  reading |-> reading,
                  text |-> IF cmd = "winddirection" /\ reading.some
                           THEN get_wind_direction_text(reading)
                           ELSE <<>>,
                  note |-> IF ~reading.some THEN "No data"
                           ELSE IF cmd = "rainfall"
                                THEN RainfallCategory(reading.v)
                           ELSE IF cmd = "windspeed"
                                THEN WindCategory(reading.v)
                           ELSE WindFrom(reading.v)]

\* The summary branch of rainfall_handler (lines 326-358).
RainfallSummary(stations, readings) ==
    LET stats == get_summary_stats(readings)
    IN  IF readings = <<>> THEN Raised
        ELSE IF stats.max > 0 /\ HasNoneValue(readings[1].data)
        THEN Raised
        ELSE [kind |-> "summary", cmd |-> "rainfall",
              time |-> format_timestamp(readings[1].timestamp),
              stats |-> stats,
              nstations |-> Len(stations),
              rows |-> IF stats.max > 0
                       THEN Top3(SortDesc(PositiveRows(readings[1].data,
                                                       stations)))
                       ELSE <<>>,
              note |-> IF stats.max > 0 THEN "none"
                       ELSE "No rainfall detected across all stations"]

\* The summary branch of wind_speed_handler (lines 458-487).
WindSpeedSummary(stations, readings) ==
    LET stats == get_summary_stats(readings)
    IN  IF readings = <<>> THEN Raised
        ELSE [kind |-> "summary", cmd |-> "windspeed",
              time |-> format_timestamp(readings[1].timestamp),
              stats |-> stats,
              nstations |-> Len(stations),
              rows |-> Top3(SortDesc(ValueRows(readings[1].data, stations))),
              note |-> "none"]

\* The summary branch of wind_direction_handler (lines 598-623).
WindDirectionSummary(stations, readings) ==
    IF readings = <<>> THEN Raised
    ELSE [kind |-> "summary", cmd |-> "winddirection",
          time |-> format_timestamp(readings[1].timestamp),
          stats |-> ZeroStats,
          nstations |-> Len(stations),
          rows |-> WithDirection(SortByName(ValueRows(readings[1].data,
                                                      stations))),
          note |-> "none"]

\* The try block of the three handlers after the fetch returned `data`:
\* the reply it sends, or Raised.
TryBody(cmd, data, args) ==
    IF data = NoneV THEN UnableReply(cmd)
    ELSE IF data.tag # "data" THEN Raised
    ELSE LET stations == data.stations
             readings == data.readings
             station_query == StationQuery(args)
         IN  IF station_query # <<>> /\ IsAll(station_query)
             THEN AllBranch(cmd, stations, readings)
             ELSE IF station_query # <<>>
             THEN StationBranch(cmd, stations, readings, station_query)
             ELSE IF cmd = "rainfall"
                  THEN RainfallSummary(stations, readings)
             ELSE IF cmd = "windspeed"
                  THEN WindSpeedSummary(stations, readings)
             ELSE WindDirectionSummary(stations, readings)

\* A handler without its except clause: the exception leaves the handler.
ExceptNothing(cmd, out) == out

\* except Exception: log the error and reply "Failed to fetch ...".
Except(cmd, out) == IF out.kind = "raise" THEN FailedReply(cmd) ELSE out

\* What a handler sends after its fetch returned `data`.
HandlerBody(cmd, data, args) == Except(cmd, TryBody(cmd, data, args))

\* The handlers that fetch, and the sources each of them fetches.
FetchCommands ==
    {"rainfall", "windspeed", "winddirection", "weather", "stations", "wind"}

FetchedBy(cmd) ==
    IF cmd = "rainfall" THEN {1}
    ELSE IF cmd = "windspeed" THEN {2}
    ELSE IF cmd = "winddirection" THEN {3}
    ELSE IF cmd = "wind" THEN {2, 3}
    ELSE Sources

aexit_unless_raised(exc) == IF session # 0 /\ ~exc THEN sclosed + 1 ELSE sclosed

\* WeatherAPI.__aexit__: the number of close() calls after the block is
\* left, by a return, by running to its end, or (exc) by an exception.
aexit(exc) == IF session # 0 THEN sclosed + 1 ELSE sclosed

\* The first line of every handler that fetches: the "Fetching ..." notice.
Notice ==
    /\ hpc = "idle"
    /\ hcmd \in FetchCommands
    /\ hreplies' = Append(hreplies, FetchingReply(hcmd))
    /\ hpc' = "fetching"
    /\ UNCHANGED <<hcmd, hargs, hfetch, hresults, hout, hparts, hquery,
                   hanswered, hedits, hmessage>>
    /\ UNCHANGED <<apiVars, fetchVars, pureVars, mainVars>>

\* The handlers whose fetches are tasks of asyncio.gather.
Gathering == {"weather", "stations", "wind"}

\* async with WeatherAPI() as api, and the call of the fetch in its block:
\* __init__ sets session to None and __aenter__ stores a new ClientSession
\* in it.  A handler of one source awaits get_*_data, which sends its
\* request on self.session before the handler gives way; asyncio.gather
\* makes a task of every fetch and gives way before any of them has run.
Enter ==
    /\ hpc = "fetching"
    /\ session' = 1
    /\ IF hcmd \in Gathering
       THEN /\ hpc' = "gathering"
            /\ UNCHANGED client
       ELSE /\ hpc' = "awaiting"
            /\ client' = [i \in Sources |->
                             IF i \in FetchedBy(hcmd) THEN session'
                             ELSE client[i]]
    /\ UNCHANGED sclosed
    /\ UNCHANGED <<hcmd, hargs, hfetch, hresults, hout, hreplies, hparts,
                   hquery, hanswered, hedits, hmessage>>
    /\ UNCHANGED <<fetchVars, pureVars, mainVars>>

\* The tasks of asyncio.gather start in the order of its arguments, each
\* in a step of its own: the fetch sends its request on self.session.
\* When the last one has, the handler waits for what they return.
Gather ==
    /\ hpc = "gathering"
    /\ LET waiting == { i \in FetchedBy(hcmd) : client[i] = 0 }
           first == CHOOSE i \in waiting : \A j \in waiting : i <= j
       IN  /\ client' = [client EXCEPT ![first] = session]
           /\ hpc' = IF waiting = {first} THEN "awaiting" ELSE "gathering"
    /\ UNCHANGED <<session, sclosed>>
    /\ UNCHANGED <<hcmd, hargs, hfetch, hresults, hout, hreplies, hparts,
                   hquery, hanswered, hedits, hmessage>>
    /\ UNCHANGED <<fetchVars, pureVars, mainVars>>

(***************************************************************************)
(* bot_handlers.py: the /weather, /stations and /wind handlers, which      *)
(* fetch several sources.  rs is the tuple of what the fetches returned.   *)
(***************************************************************************)
NoneAvailableNever(rs, fetched) == FALSE

\* not any([...]) / not a and not b: every fetched source returned None.
NoneAvailable(rs, fetched) == \A i \in fetched : rs[i] = NoneV

\* A source that is left out of a message.
NoSection == [present |-> FALSE]

\* The loop of weather_handler over the latest rainfall reading (lines
\* 173-182): the highest value seen so far and the name of the last listed
\* station that raised it.  Every value is a number here.
RECURSIVE HighestFrom(_, _, _, _)
HighestFrom(data, stations, max_value, max_station) ==
    IF data = <<>> THEN [value |-> max_value, station |-> max_station]
    ELSE IF Head(data).value.v > max_value
         THEN LET station == find_station_by_id(stations,
                                                Head(data).stationId)
              IN  HighestFrom(Tail(data), stations, Head(data).value.v,
                              IF station # NoStation
                              THEN [some |-> TRUE, name |-> station.name]
                              ELSE max_station)
         ELSE HighestFrom(Tail(data), stations, max_value, max_station)

\* The rainfall part of the overview (lines 162-187).  "if max_station"
\* (line 184) tests the name itself: the "Highest" line is left out when no
\* station was found and when the name found is the empty string.
RainfallSection(data) ==
    IF data.tag # "data" THEN Raised
    ELSE IF data.readings = <<>> THEN Raised
    ELSE LET stats == get_summary_stats(data.readings)
             latest_reading == data.readings[1]
         IN  IF stats.max > 0 /\ HasNoneValue(latest_reading.data)
             THEN Raised
             ELSE LET high == HighestFrom(latest_reading.data, data.stations,
                                          0, [some |-> FALSE])
                  IN  [present |-> TRUE,
                       time |-> format_timestamp(latest_reading.timestamp),
                       stats |-> stats,
                       highest |-> IF /\ stats.max > 0
                                      /\ high.station.some
                                      /\ high.station.name # <<>>
                                   THEN [some |-> TRUE,
                                         value |-> high.value,
                                         name |-> high.station.name]
                                   ELSE [some |-> FALSE]]

\* The wind speed part of the overview (lines 190-198).
WindSpeedSection(data) ==
    IF data.tag # "data" THEN Raised
    ELSE IF data.readings = <<>> THEN Raised
    ELSE [present |-> TRUE,
          time |-> format_timestamp(data.readings[1].timestamp),
          stats |-> get_summary_stats(data.readings)]

\* The wind direction part of the overview (lines 201-205).
WindDirectionSection(data) ==
    IF data.tag # "data" THEN Raised
    ELSE IF data.readings = <<>> THEN Raised
    ELSE [present |-> TRUE,
          time |-> format_timestamp(data.readings[1].timestamp),
          nstations |-> Len(data.stations)]

\* The try block of weather_handler.
WeatherBody(rs) ==
    IF NoneAvailable(rs, {1, 2, 3}) THEN UnableReply("weather")
    ELSE LET rainfall == IF rs[1] # NoneV THEN RainfallSection(rs[1])
                         ELSE NoSection
             windspeed == IF rs[2] # NoneV THEN WindSpeedSection(rs[2])
                          ELSE NoSection
             winddirection == IF rs[3] # NoneV
                              THEN WindDirectionSection(rs[3])
                              ELSE NoSection
         IN  IF Raised \in {rainfall, windspeed, winddirection} THEN Raised
             ELSE [kind |-> "overview", cmd |-> "weather",
                   rainfall |-> rainfall, windspeed |-> windspeed,
                   winddirection |-> winddirection]

\* The index of the entry of a dict (kept as a sequence in insertion
\* order) under the key id, 0 when the key is not in it.
KeyIndex(entries, id) ==
    IF \E k \in 1..Len(entries) : entries[k].id = id
    THEN CHOOSE k \in 1..Len(entries) : entries[k].id = id
    ELSE 0

\* A variant of the collection that adds an entry for every station of
\* every list.
RECURSIVE CollectStationsUnmerged(_, _, _)
CollectStationsUnmerged(all_stations, stations, data_type) ==
    IF stations = <<>> THEN all_stations
    ELSE CollectStationsUnmerged(
             Append(all_stations,
                    [id |-> Head(stations).id, name |-> Head(stations).name,
                     data_types |-> <<data_type>>]),
             Tail(stations), data_type)

\* One of the three loops of stations_handler (lines 646-674): the rainfall
\* loop assigns the entry, the other two append the data type to an entry
\* that is there and add an entry otherwise.
RECURSIVE CollectStations(_, _, _)
CollectStations(all_stations, stations, data_type) ==
    IF stations = <<>> THEN all_stations
    ELSE LET station == Head(stations)
             k == KeyIndex(all_stations, station.id)
             entry == [id |-> station.id, name |-> station.name,
                       data_types |-> <<data_type>>]
         IN  CollectStations(
                 IF k = 0 THEN Append(all_stations, entry)
                 ELSE IF data_type = "rainfall"
                      THEN [all_stations EXCEPT ![k] = entry]
                      ELSE [all_stations EXCEPT ![k].data_types =
                                                   Append(@, data_type)],
                 Tail(stations), data_type)

\* The indicators of a station line, in the order of lines 694-699.
Indicators(data_types) ==
    SelectSeq(<<"rainfall", "wind_speed", "wind_direction">>,
              LAMBDA t : \E k \in 1..Len(data_types) : data_types[k] = t)

\* The try block of stations_handler.
StationsBody(rs) ==
    IF \E i \in Sources : rs[i] # NoneV /\ rs[i].tag # "data" THEN Raised
    ELSE LET from1 == IF rs[1] # NoneV
                      THEN CollectStations(<<>>, rs[1].stations, "rainfall")
                      ELSE <<>>
             from2 == IF rs[2] # NoneV
                      THEN CollectStations(from1, rs[2].stations,
                                           "wind_speed")
                      ELSE from1
             all_stations == IF rs[3] # NoneV
                             THEN CollectStations(from2, rs[3].stations,
                                                  "wind_direction")
                             ELSE from2
             sorted_stations == SortByName(all_stations)
         IN  IF all_stations = <<>> THEN UnableReply("stations")
             ELSE [kind |-> "stations", cmd |-> "stations",
                   rows |-> [k \in 1..Len(sorted_stations) |->
                               [name |-> sorted_stations[k].name,
                                id |-> sorted_stations[k].id,
                                indicators |->
                                  Indicators(sorted_stations[k].data_types)]]]

\* The wind speed loop of wind_handler (lines 780-787).
RECURSIVE AddSpeeds(_, _, _)
AddSpeeds(wind_stations, stations, readings) ==
    IF stations = <<>> THEN wind_stations
    ELSE LET station == Head(stations)
             k == KeyIndex(wind_stations, station.id)
             entry == [id |-> station.id, name |-> station.name,
                       speed |-> get_station_reading(readings, station.id),
                       direction |-> NoneVal, direction_text |-> <<>>]
         IN  AddSpeeds(IF k = 0 THEN Append(wind_stations, entry)
                       ELSE [wind_stations EXCEPT ![k] = entry],
                       Tail(stations), readings)

\* The wind direction loop of wind_handler (lines 790-803).
RECURSIVE AddDirections(_, _, _)
AddDirections(wind_stations, stations, readings) ==
    IF stations = <<>> THEN wind_stations
    ELSE LET station == Head(stations)
             k == KeyIndex(wind_stations, station.id)
             direction == get_station_reading(readings, station.id)
             direction_text == IF direction.some
                               THEN get_wind_direction_text(direction)
                               ELSE <<>>
         IN  AddDirections(
                 IF k = 0
                 THEN Append(wind_stations,
                             [id |-> station.id, name |-> station.name,
                              speed |-> NoneVal, direction |-> direction,
                              direction_text |-> direction_text])
                 ELSE [wind_stations EXCEPT
                          ![k].direction = direction,
                          ![k].direction_text = direction_text],
                 Tail(stations), readings)

\* The first entry whose name contains the token or whose id is the
\* token in upper case (lines 852-857).
RECURSIVE SearchWindStation(_, _)
SearchWindStation(wind_stations, station_query) ==
    IF wind_stations = <<>> THEN NoStation
    ELSE IF \/ NameMatch(station_query, Head(wind_stations).name)
            \/ Upper(station_query) = Head(wind_stations).id
         THEN Head(wind_stations)
         ELSE SearchWindStation(Tail(wind_stations), station_query)

\* The station of a /wind query (lines 843-857): the aliased id when it is
\* a key of wind_stations, else the search.
ResolveWindStation(wind_stations, station_query) ==
    LET station_id == AliasGet(Lower(station_query))
    IN  IF station_id # <<>> /\ KeyIndex(wind_stations, station_id) # 0
        THEN wind_stations[KeyIndex(wind_stations, station_id)]
        ELSE SearchWindStation(wind_stations, station_query)

\* The rows of the stations that have a wind speed.
SpeedRows(wind_stations) ==
    LET with == SelectSeq(wind_stations, LAMBDA w : w.speed.some)
    IN  [k \in 1..Len(with) |->
            [name |-> with[k].name, id |-> with[k].id,
             value |-> with[k].speed]]

\* The try block of wind_handler after the gather.
WindBody(rs, args) ==
    LET station_query == StationQuery(args)
    IN  IF NoneAvailable(rs, {2, 3}) THEN UnableReply("wind")
        ELSE IF \E i \in {2, 3} : rs[i] # NoneV /\ rs[i].tag # "data"
        THEN Raised
        ELSE IF rs[2] # NoneV /\ rs[2].readings = <<>> THEN Raised
        ELSE IF rs[2] = NoneV /\ rs[3] # NoneV /\ rs[3].readings = <<>>
        THEN Raised
        ELSE
        LET speeds == IF rs[2] # NoneV
                      THEN AddSpeeds(<<>>, rs[2].stations, rs[2].readings)
                      ELSE <<>>
            wind_stations == IF rs[3] # NoneV
                             THEN AddDirections(speeds, rs[3].stations,
                                                rs[3].readings)
                             ELSE speeds
            timestamp ==
                IF rs[2] # NoneV
                THEN format_timestamp(rs[2].readings[1].timestamp)
                ELSE IF rs[3] # NoneV
                THEN format_timestamp(rs[3].readings[1].timestamp)
                ELSE [shown |-> "none", t |-> 0]
        IN  IF station_query # <<>> /\ IsAll(station_query)
            THEN [kind |-> "all", cmd |-> "wind", time |-> timestamp,
                  rows |-> SortByName(wind_stations)]
            ELSE IF station_query # <<>>
            THEN LET target == ResolveWindStation(wind_stations,
                                                  station_query)
                 IN  IF target = NoStation
                     THEN NotFoundReply("wind", station_query)
                     ELSE [kind |-> "station", cmd |-> "wind",
                           name |-> target.name, id |-> target.id,
                           time |-> timestamp,
                           speed |-> target.speed,
                           speed_note |-> IF target.speed.some
                                          THEN WindCategory(target.speed.v)
                                          ELSE "No data",
                           direction |-> target.direction,
                           text |-> target.direction_text,
                           note |-> IF target.direction.some
                                    THEN WindFrom(target.direction.v)
                                    ELSE "No data"]
            ELSE LET rows == SpeedRows(wind_stations)
                     speed_values == [k \in 1..Len(rows) |-> rows[k].value.v]
                 IN  [kind |-> "summary", cmd |-> "wind",
                      time |-> timestamp,
                      stats |-> IF speed_values = <<>> THEN ZeroStats
                                ELSE [min |-> MinSeq(speed_values),
                                      max |-> MaxSeq(speed_values),
                                      avg |-> Average(speed_values),
                                      count |-> Len(speed_values)],
                      rows |-> Top3(SortDesc(rows)),
                      ndirections |->
                          Len(SelectSeq(wind_stations,
                                        LAMBDA w : w.direction.some))]

(***************************************************************************)
(* The text of a message, as far as its length and its line breaks go: a   *)
(* sequence of pieces, each a character (of a station name, an id, a raw   *)
(* timestamp, or a line break) or a run of n characters of a literal or a  *)
(* formatted number of the source, which holds no line break and is not    *)
(* blank; n is the number of characters len() counts in that literal or    *)
(* number.  len(message) is the sum of the n.                              *)
(***************************************************************************)
MAX_MESSAGE_LENGTH == 4096

Ch(c) == [c |-> c, n |-> 1]

Lit(n) == [c |-> "lit", n |-> n]

NL == Ch("\n")

\* The text of a string of the input.
Chars(s) == [k \in 1..Len(s) |-> Ch(s[k])]

\* len(text): the characters, and the lengths of the runs.
TextLen(t) ==
    LET runs == SelectSeq(t, LAMBDA p : p.n # 1)
        sum[k \in 0..Len(runs)] == IF k = 0 THEN 0 ELSE sum[k - 1] + runs[k].n
    IN  Cardinality({ k \in 1..Len(t) : t[k].n = 1 }) + sum[Len(runs)]

\* sep.join(texts)
RECURSIVE JoinText(_, _)
JoinText(sep, texts) ==
    IF texts = <<>> THEN <<>>
    ELSE IF Len(texts) = 1 THEN texts[1]
    ELSE texts[1] \o sep \o JoinText(sep, Tail(texts))

\* text.find(pat, from) counted in pieces: the least position at or after
\* from where pat starts, 0 when there is none.
Find(t, pat, from) ==
    LET at == { k \in from..(Len(t) - Len(pat) + 1) :
                  \A j \in 1..Len(pat) : t[k + j - 1] = pat[j] }
    IN  IF at = {} THEN 0
        ELSE CHOOSE k \in at : \A j \in at : k <= j

\* text.split(sep), from position from on.
RECURSIVE Split(_, _, _)
Split(t, sep, from) ==
    LET k == Find(t, sep, from)
    IN  IF k = 0 THEN <<SubSeq(t, from, Len(t))>>
        ELSE <<SubSeq(t, from, k - 1)>> \o Split(t, sep, k + Len(sep))

\* text.strip() == "": every piece is a blank character.
Blank(t) == \A k \in 1..Len(t) : t[k].c \in {" ", "\n", "\t", "\r"}

RECURSIVE Digits(_)
Digits(n) == IF n < 10 THEN 1 ELSE 1 + Digits(n \div 10)

\* f"{x:.1f}" of a value of v tenths.
Fixed1(v) ==
    <<Lit((IF v < 0 THEN 1 ELSE 0) + Digits(AbsDiff(v, 0) \div 10) + 2)>>

\* f"{avg:.1f}" of an average: the tenth nearest to the float; where the
\* decimal quotient lies halfway between two tenths the error of the float
\* decides, and a float that is the half itself goes to the even tenth.
\* A negative float keeps its sign when it prints as zero.
FixedAvg(avg) ==
    LET negative == avg.num < 0 \/ (avg.num = 0 /\ avg.err < 0)
        a == IF negative THEN 0 - avg.num ELSE avg.num
        b == IF negative THEN 0 - avg.err ELSE avg.err
        q == a \div avg.den
        rest == a % avg.den
        tenths == IF 2 * rest < avg.den THEN q
                  ELSE IF 2 * rest > avg.den THEN q + 1
                  ELSE IF b > 0 THEN q + 1
                  ELSE IF b < 0 THEN q
                  ELSE IF q % 2 = 0 THEN q ELSE q + 1
    IN  <<Lit((IF negative THEN 1 ELSE 0) + Digits(tenths \div 10) + 2)>>

\* f"{x}" of a number of the feed: an int prints without a fraction, a
\* float with it, a whole one too ("350.0").
Repr(value) ==
    LET v == value.v
        float == v % 10 # 0 \/ "float" \in DOMAIN value
    IN  <<Lit((IF v < 0 THEN 1 ELSE 0) + Digits(AbsDiff(v, 0) \div 10)
              + (IF float THEN 2 ELSE 0))>>

\* The text format_timestamp returned: "%d %b %Y, %I:%M %p SGT" is 21
\* characters and the year, which %Y does not pad; a string that did not
\* parse is shown as it is.
TimeText(time) ==
    IF time.shown = "display" THEN <<Lit(21 + Digits(time.year))>>
    ELSE IF time.shown = "raw" THEN Chars(time.raw)
    ELSE <<>>

\* direction_text: a compass label ("N", "E", "S", "W", or two letters),
\* or f"{a}-{b}".
DirectionText(text) ==
    LET LabelText(label) ==
            IF label \in {"N", "E", "S", "W"} THEN <<Lit(1)>> ELSE <<Lit(2)>>
    IN  IF Len(text) = 1 THEN LabelText(text[1])
        ELSE LabelText(text[1]) \o <<Lit(1)>> \o LabelText(text[2])

(***************************************************************************)
(* weather_handler: the message (lines 159-209) and its split into         *)
(* several replies (lines 212-226).                                        *)
(***************************************************************************)
\* The lines of a statistics section: avg, min - max, count.
StatsLines(stats, unit) ==
    << <<Lit(11)>> \o FixedAvg(stats.avg) \o unit,
       <<Lit(9)>> \o Fixed1(stats.min) \o <<Lit(3)>>
           \o Fixed1(stats.max) \o unit,
       <<Lit(19)>> \o <<Lit(Digits(stats.count))>> >>

\* message_parts, the lines of the overview.
WeatherParts(out) ==
    << <<Lit(33), NL>> >>
    \o (IF out.rainfall.present
        THEN << <<Lit(23)>>
                   \o TimeText(out.rainfall.time) \o <<Lit(1)>> >>
             \o StatsLines(out.rainfall.stats, <<Lit(3)>>)
             \o (IF out.rainfall.highest.some
                 THEN << <<Lit(11)>>
                            \o Fixed1(out.rainfall.highest.value)
                            \o <<Lit(7)>>
                            \o Chars(out.rainfall.highest.name) >>
                 ELSE <<>>)
             \o << <<>> >>
        ELSE <<>>)
    \o (IF out.windspeed.present
        THEN << <<Lit(24)>>
                   \o TimeText(out.windspeed.time) \o <<Lit(1)>> >>
             \o StatsLines(out.windspeed.stats, <<Lit(6)>>)
             \o << <<>> >>
        ELSE <<>>)
    \o (IF out.winddirection.present
        THEN << <<Lit(28)>>
                   \o TimeText(out.winddirection.time) \o <<Lit(1)>>,
                <<Lit(22)>>
                   \o <<Lit(Digits(out.winddirection.nstations))>>
                   \o <<Lit(9)>>,
                <<>> >>
        ELSE <<>>)
    \o << <<Lit(86)>> >>

\* The loop of lines 216-221 and the test of line 223: the messages sent
\* for the parts still to add, current_message and the messages sent so
\* far.
RECURSIVE PackParagraphs(_, _, _)
PackParagraphs(parts, current_message, sent) ==
    IF parts = <<>>
    THEN IF current_message # <<>> THEN Append(sent, current_message)
         ELSE sent
    ELSE LET joined == current_message \o <<NL, NL>> \o Head(parts)
         IN  IF TextLen(joined) > MAX_MESSAGE_LENGTH
             THEN PackParagraphs(Tail(parts), Head(parts),
                                 Append(sent, current_message))
             ELSE PackParagraphs(Tail(parts), joined, sent)

\* The texts weather_handler sends for a message that is too long.
WeatherMessages(message) ==
    LET parts == Split(message, <<NL, NL>>, 1)
    IN  PackParagraphs(Tail(parts), Head(parts), <<>>)

(***************************************************************************)
(* stations_handler: the message (lines 687-716) and its split at the      *)
(* legend (lines 719-727).                                                 *)
(***************************************************************************)
IndicatorText(data_type) ==
    IF data_type = "rainfall" THEN <<Lit(2)>>
    ELSE IF data_type = "wind_speed" THEN <<Lit(1)>>
    ELSE <<Lit(1)>>

Legend == Chars(<<"*", "*", "L", "e", "g", "e", "n", "d", ":", "*", "*">>)

\* The message parts.  A station line is f"<bullet> **{name}** ({id})
\* {indicators}": the characters around the name and the id are spelled
\* out, since a name that ends in "\n**Legend:" runs with the "**" after
\* it into the text message.find looks for.
StationsParts(out) ==
    << <<Lit(32), NL>> >>
    \o [k \in 1..Len(out.rows) |->
           <<Lit(1), Ch(" "), Ch("*"), Ch("*")>>
           \o Chars(out.rows[k].name)
           \o <<Ch("*"), Ch("*"), Ch(" "), Ch("(")>>
           \o Chars(out.rows[k].id) \o <<Ch(")"), Ch(" ")>>
           \o JoinText(<<>>, [j \in 1..Len(out.rows[k].indicators) |->
                                   IndicatorText(out.rows[k].indicators[j])])]
    \o << <<NL>> \o Legend,
          <<Lit(26)>>,
          <<Lit(27)>>,
          <<Lit(31)>>,
          <<NL, Lit(19)>>,
          <<Lit(51)>>,
          <<Lit(53)>>,
          <<Lit(58)>> >>

\* The texts stations_handler sends for a message that is too long: the
\* legend is part of every message and never at its start, so the message
\* is cut in two in front of its first "\n**Legend:**".
StationsMessages(message) ==
    LET legend_start == Find(message, <<NL>> \o Legend, 1)
    IN  << SubSeq(message, 1, legend_start - 1),
           SubSeq(message, legend_start, Len(message)) >>

(***************************************************************************)
(* wind_handler: the three messages (lines 813-952) and their split by     *)
(* lines (lines 955-970).                                                  *)
(***************************************************************************)
\* if timestamp: f"<calendar> **Time**: {timestamp}\n\n"
TimeLine(time) ==
    IF TimeText(time) # <<>>
    THEN <<Lit(12)>> \o TimeText(time) \o <<NL, NL>>
    ELSE <<>>

\* The lines of one station in the list of all stations (lines 824-838).
WindAllEntry(w) ==
    <<Lit(4)>> \o Chars(w.name) \o <<Lit(4)>> \o Chars(w.id)
    \o <<Lit(1), NL>>
    \o (IF w.speed.some
        THEN <<Lit(9)>> \o Fixed1(w.speed.v) \o <<Lit(6)>>
        ELSE <<Lit(16)>>)
    \o (IF w.direction.some
        THEN <<Lit(16)>> \o Repr(w.direction)
             \o <<Lit(3)>> \o DirectionText(w.direction_text)
             \o <<Lit(1), NL>>
        ELSE <<Lit(23), NL>>)
    \o <<NL>>

WindAllText(out) ==
    <<Lit(40), NL, NL>>
    \o TimeLine(out.time)
    \o JoinText(<<>>, [k \in 1..Len(out.rows) |->
                            WindAllEntry(out.rows[k])])
    \o <<Lit(54)>>

\* The line under the wind speed of a station (lines 878-888).
SpeedNoteText(note) ==
    IF note = "Calm" THEN <<Lit(9), NL>>
    ELSE IF note = "Light breeze" THEN <<Lit(16), NL>>
    ELSE IF note = "Moderate breeze" THEN <<Lit(19), NL>>
    ELSE IF note = "Strong breeze" THEN <<Lit(18), NL>>
    ELSE <<Lit(21), NL>>

\* The line under the wind direction of a station (lines 897-913).
FromNoteText(note) ==
    IF note = "North" THEN <<Lit(20), NL>>
    ELSE IF note = "Northeast" THEN <<Lit(24), NL>>
    ELSE IF note = "East" THEN <<Lit(19), NL>>
    ELSE IF note = "Southeast" THEN <<Lit(24), NL>>
    ELSE IF note = "South" THEN <<Lit(20), NL>>
    ELSE IF note = "Southwest" THEN <<Lit(24), NL>>
    ELSE IF note = "West" THEN <<Lit(19), NL>>
    ELSE IF note = "Northwest" THEN <<Lit(24), NL>>
    ELSE <<>>

WindStationText(out) ==
    <<Lit(17)>> \o Chars(out.name) \o <<Lit(2), NL, NL>>
    \o <<Lit(15)>> \o Chars(out.name) \o <<Lit(2)>>
    \o Chars(out.id) \o <<Lit(1), NL>>
    \o TimeLine(out.time)
    \o (IF out.speed.some
        THEN <<Lit(18)>> \o Fixed1(out.speed.v)
             \o <<Lit(6), NL>> \o SpeedNoteText(out.speed_note)
        ELSE <<Lit(25), NL>>)
    \o (IF out.direction.some
        THEN <<Lit(22)>> \o Repr(out.direction)
             \o <<Lit(3)>> \o DirectionText(out.text) \o <<Lit(1), NL>>
             \o FromNoteText(out.note)
        ELSE <<Lit(29), NL>>)
    \o <<NL, Lit(79)>>

WindSummaryText(out) ==
    <<Lit(24), NL, NL>>
    \o TimeLine(out.time)
    \o (IF out.stats.count > 0
        THEN <<Lit(28), NL>>
             \o <<Lit(11)>> \o FixedAvg(out.stats.avg)
             \o <<Lit(6), NL>>
             \o <<Lit(9)>> \o Fixed1(out.stats.min) \o <<Lit(3)>>
             \o Fixed1(out.stats.max) \o <<Lit(6), NL>>
             \o <<Lit(19)>> \o <<Lit(Digits(out.stats.count))>>
             \o <<NL, NL>>
             \o <<Lit(35), NL>>
             \o JoinText(<<>>, [i \in 1..Len(out.rows) |->
                                     <<Lit(Digits(i)), Lit(2)>>
                                     \o Chars(out.rows[i].name) \o <<Lit(2)>>
                                     \o Fixed1(out.rows[i].value.v)
                                     \o <<Lit(6), NL>>])
             \o <<NL>>
        ELSE <<>>)
    \o (IF out.ndirections > 0
        THEN <<Lit(42)>>
             \o <<Lit(Digits(out.ndirections))>> \o <<Lit(9), NL, NL>>
        ELSE <<>>)
    \o <<Lit(86)>>

\* The loop of lines 960-965 and the test of line 967.
RECURSIVE PackLines(_, _, _)
PackLines(lines, current_message, sent) ==
    IF lines = <<>>
    THEN IF ~Blank(current_message) THEN Append(sent, current_message)
         ELSE sent
    ELSE IF TextLen(current_message \o Head(lines) \o <<NL>>)
               > MAX_MESSAGE_LENGTH
         THEN PackLines(Tail(lines), Head(lines) \o <<NL>>,
                        Append(sent, current_message))
         ELSE PackLines(Tail(lines),
                        current_message \o Head(lines) \o <<NL>>, sent)

\* The texts wind_handler sends for a message that is too long; every
\* message has the two line breaks after its header, so lines[1] is there.
WindMessages(message) ==
    LET lines == Split(message, <<NL>>, 1)
    IN  PackLines(SubSeq(lines, 3, Len(lines)),
                  lines[1] \o <<NL>> \o lines[2] \o <<NL, NL>>, <<>>)

\* The message text of a reply of /weather, /stations or /wind that is
\* sent after the test of its length; the other replies are sent as they
\* are, and their text is left out.
MessageText(out) ==
    IF out.kind = "overview" THEN JoinText(<<NL>>, WeatherParts(out))
    ELSE IF out.kind = "stations"
         THEN JoinText(<<NL>>, StationsParts(out))
    ELSE IF out.kind \in {"all", "station", "summary"} /\ out.cmd = "wind"
         THEN IF out.kind = "all" THEN WindAllText(out)
              ELSE IF out.kind = "station" THEN WindStationText(out)
              ELSE WindSummaryText(out)
    ELSE <<>>

\* The reply_text calls a handler makes for the reply out, in order: one,
\* unless len(message) > MAX_MESSAGE_LENGTH; then the message is sent in
\* parts, each kept with its place and its length.
Messages(out) ==
    LET message == MessageText(out)
    IN  IF TextLen(message) > MAX_MESSAGE_LENGTH
        THEN LET texts == IF out.kind = "overview"
                          THEN WeatherMessages(message)
                          ELSE IF out.kind = "stations"
                               THEN StationsMessages(message)
                          ELSE WindMessages(message)
             IN  [k \in 1..Len(texts) |->
                     [kind |-> "part", cmd |-> out.cmd, of |-> out.kind,
                      index |-> k, length |-> TextLen(texts[k])]]
        ELSE <<out>>

\* The fetch has returned and the try statement has come to the reply
\* out: a reply of the try block is sent inside the async with block; an
\* exception leaves the block, which closes the session, before the except
\* clause sends its reply; an exception that no except clause catches
\* leaves the handler.
Decide(out) ==
    /\ hout' = out
    /\ hparts' = IF out.kind = "raise" THEN <<>> ELSE Messages(out)
    /\ sclosed' = IF out.kind \in {"failed", "raise"} THEN aexit(TRUE)
                  ELSE sclosed
    /\ hpc' = IF out.kind = "raise" THEN "raised"
              ELSE IF hparts' = <<>> THEN "exiting"
              ELSE "replying"
    /\ UNCHANGED <<session, client>>

(***************************************************************************)
(* The calls of the pure functions.                                        *)
(***************************************************************************)
\* One call of get_station_reading.
GetStationReading ==
    /\ rpc = "call"
    /\ rresult' = get_station_reading(rreadings, rstation)
    /\ rpc' = "done"
    /\ UNCHANGED <<rreadings, rstation, spc, rstats>>
    /\ UNCHANGED <<fetchVars, apiVars, handlerVars, mainVars, nameVars, dirVars>>

\* One call of get_summary_stats.
GetSummaryStats ==
    /\ spc = "call"
    /\ rstats' = get_summary_stats(rreadings)
    /\ spc' = "done"
    /\ UNCHANGED <<rreadings, rstation, rpc, rresult>>
    /\ UNCHANGED <<fetchVars, apiVars, handlerVars, mainVars, nameVars, dirVars>>

\* One call of find_station_by_name.
FindStationByName ==
    /\ npc = "call"
    /\ nresult' = find_station_by_name(nstations, ntoken)
    /\ npc' = "done"
    /\ UNCHANGED <<nstations, ntoken, nsingle, nwind>>
    /\ UNCHANGED <<fetchVars, apiVars, handlerVars, mainVars, readVars, dirVars>>

\* One call of get_wind_direction_text.
GetWindDirectionText ==
    /\ dpc = "call"
    /\ dresult' = get_wind_direction_text(dvalue)
    /\ dpc' = "done"
    /\ UNCHANGED <<dvalue, dfrom>>
    /\ UNCHANGED <<fetchVars, apiVars, handlerVars, mainVars, readVars, nameVars>>

\* The station-query branch of wind_speed_handler (lines 417-434) on the
\* station list nstations; "all" and the empty query take other branches.
ResolveInWindSpeed ==
    /\ nsingle = PendingV
    /\ ntoken # <<>> /\ ~IsAll(ntoken)
    /\ nsingle' = ResolveStation(nstations, ntoken)
    /\ UNCHANGED <<nstations, ntoken, npc, nresult, nwind>>
    /\ UNCHANGED <<fetchVars, apiVars, handlerVars, mainVars, readVars, dirVars>>

\* The station-query branch of wind_handler (lines 841-866) when the wind
\* speed source lists nstations and the wind direction source is absent.
ResolveInWind ==
    /\ nwind = PendingV
    /\ ntoken # <<>> /\ ~IsAll(ntoken)
    /\ nwind' = ResolveWindStation(AddSpeeds(<<>>, nstations, <<>>), ntoken)
    /\ UNCHANGED <<nstations, ntoken, npc, nresult, nsingle>>
    /\ UNCHANGED <<fetchVars, apiVars, handlerVars, mainVars, readVars, dirVars>>

\* The threshold chain of wind_direction_handler (lines 579-594; the same
\* chain is in wind_handler, lines 897-913), run after the compass label
\* of the same reading has been computed.
WindFromChain ==
    /\ dpc = "done"
    /\ dvalue.some
    /\ dfrom' = WindFrom(dvalue.v)
    /\ dpc' = "described"
    /\ UNCHANGED <<dvalue, dresult>>
    /\ UNCHANGED <<fetchVars, apiVars, handlerVars, mainVars, readVars, nameVars>>

(***************************************************************************)
(* config.BOT_TOKEN and main.main                                          *)
(***************************************************************************)
\* os.getenv("TELEGRAM_BOT_TOKEN", ""): the value, "" when it is unset.
BOT_TOKEN(env) == IF env.set THEN env.v ELSE <<>>

\* The environment variable, unset or set to a string.
EnvUnset == [set |-> FALSE, v |-> <<>>]

EnvSet(s) == [set |-> TRUE, v |-> s]

TokenMissingIfEmpty(token) == token = <<>>

\* not BOT_TOKEN or BOT_TOKEN.strip() == ""
TokenMissing(token) == token = <<>> \/ Strip(token) = <<>>

\* The add_handler and add_error_handler calls of main, in order.
Registrations ==
    << "start", "help", "menu", "weather", "rainfall", "windspeed",
       "winddirection", "wind", "stations", "callback_query", "error",
       "unknown_command" >>

\* Lines 48-53: the token is validated; a missing token raises ValueError.
ValidateToken ==
    /\ mpc = "start"
    /\ mpc' = IF TokenMissing(BOT_TOKEN(menv)) THEN "raised" ELSE "validated"
    /\ UNCHANGED <<menv, mapp, mhandlers, mweb, mpolling>>
    /\ UNCHANGED <<fetchVars, apiVars, handlerVars, pureVars>>

\* Line 56: Application.builder().token(BOT_TOKEN).build()
BuildApplication ==
    /\ mpc = "validated"
    /\ mapp' = TRUE
    /\ mpc' = "built"
    /\ UNCHANGED <<menv, mhandlers, mweb, mpolling>>
    /\ UNCHANGED <<fetchVars, apiVars, handlerVars, pureVars>>

\* Lines 59-77: the next add_handler call.
AddHandler ==
    /\ mpc = "built"
    /\ Len(mhandlers) < Len(Registrations)
    /\ mhandlers' = Append(mhandlers, Registrations[Len(mhandlers) + 1])
    /\ UNCHANGED <<menv, mpc, mapp, mweb, mpolling>>
    /\ UNCHANGED <<fetchVars, apiVars, handlerVars, pureVars>>

\* Line 83: keep_alive() starts the thread that runs the web server.
KeepAlive ==
    /\ mpc = "built"
    /\ Len(mhandlers) = Len(Registrations)
    /\ mweb' = TRUE
    /\ mpc' = "web"
    /\ UNCHANGED <<menv, mapp, mhandlers, mpolling>>
    /\ UNCHANGED <<fetchVars, apiVars, handlerVars, pureVars>>

\* Line 84: application.run_polling(...)
RunPolling ==
    /\ mpc = "web"
    /\ mpolling' = TRUE
    /\ mpc' = "polling"
    /\ UNCHANGED <<menv, mapp, mhandlers, mweb>>
    /\ UNCHANGED <<fetchVars, apiVars, handlerVars, pureVars>>

(***************************************************************************)
(* The inputs the handlers and the lookups are run on.                     *)
(***************************************************************************)
MaxStations == 3

MaxPoints == 3

MaxReadings == 2

S108 == <<"S", "1", "0", "8">>

S116 == <<"S", "1", "1", "6">>

S50 == <<"S", "5", "0">>

S24 == <<"S", "2", "4">>

S107 == <<"S", "1", "0", "7">>

S999 == <<"S", "9", "9", "9">>

StationPool ==
    { Station(S108, <<"M", "a", "r", "i", "n", "a", " ", "G", "a", "r", "d", "e", "n", "s", " ", "D", "r", "i", "v", "e">>),
      Station(S116, <<"M", "a", "r", "i", "n", "a", " ", "B", "a", "r", "r", "a", "g", "e">>),
      Station(S50, <<"C", "l", "e", "m", "e", "n", "t", "i", " ", "R", "o", "a", "d">>),
      Station(S24, <<"U", "p", "p", "e", "r", " ", "C", "h", "a", "n", "g", "i", " ", "R", "o", "a", "d">>),
      Station(S107, <<"E", "a", "s", "t", " ", "C", "o", "a", "s", "t", " ", "P", "a", "r", "k", "w", "a", "y">>) }

\* The station lists: up to MaxStations stations with distinct ids.
StationLists ==
    { sl \in UNION { [1..n -> StationPool] : n \in 0..MaxStations } :
        \A a, b \in DOMAIN sl : a # b => sl[a] # sl[b] }

ArgLists ==
    { <<>>,
      <<<<"a", "l", "l">>>>,
      <<<<"A", "L", "L">>>>,
      <<<<"m", "a", "r", "i", "n", "a">>>>,
      <<<<"M", "A", "R", "I", "N", "A">>>>,
      <<<<"M", "a", "r", "i", "n", "a">>, <<"g", "a", "r", "d", "e", "n", "s">>>>,
      <<<<"b", "a", "r", "r", "a", "g", "e">>>>,
      <<<<"r", "o", "a", "d">>>>,
      <<<<"c", "h", "a", "n", "g", "i">>>>,
      <<<<"c", "l", "e", "m", "e", "n", "t", "i">>>>,
      <<<<"s", "1", "0", "8">>>>,
      <<<<"S", "2", "4">>>>,
      <<<<"n", "o", "w", "h", "e", "r", "e">>>>,
      <<<<"\t", "a", "l", "l">>>>,
      <<<<"\n">>>> }

TimeOk == [iso |-> TRUE, t |-> 1, year |-> 2024]

\* An earlier time, of a year of three digits.
TimeOld == [iso |-> TRUE, t |-> 0, year |-> 999]

\* A timestamp that is no ISO-8601 string, with its text.
TimeBad == [iso |-> FALSE, t |-> 1, raw |-> <<"n", "o", "w">>]

ReadingA ==
    Reading(TimeOk, << DataPoint(S108, Val(0)), DataPoint(S50, Val(12)),
                       DataPoint(S24, NoneVal) >>)

ReadingB ==
    Reading(TimeOld, << DataPoint(S116, Val(300)), DataPoint(S999, Val(5)),
                        DataPoint(S108, Val(300)),
                        DataPoint(S107, Val(3450)) >>)

ReadingEmpty == Reading(TimeBad, <<>>)

HandlerReadings ==
    { <<>>, <<ReadingA>>, <<ReadingB, ReadingA>>, <<ReadingA, ReadingB>>,
      <<ReadingEmpty>> }

Payload(stations, readings) ==
    [tag |-> "data", stations |-> stations, readings |-> readings]

\* The inputs of the handlers that fetch several sources: station lists
\* of up to MaxListed stations that differ between the sources.
MaxListed == 2

MultiPool == { st \in StationPool : st.id \in {S108, S116, S24} }

MultiLists ==
    { sl \in UNION { [1..n -> MultiPool] : n \in 0..MaxListed } :
        \A a, b \in DOMAIN sl : a # b => sl[a] # sl[b] }

ReadingM1 ==
    Reading(TimeOk, << DataPoint(S24, Val(120)), DataPoint(S108, Val(0)),
                       DataPoint(S116, Val(3500)) >>)

ReadingM2 ==
    Reading(TimeBad, << DataPoint(S108, NoneVal), DataPoint(S24, Val(50)),
                        DataPoint(S999, Val(70)) >>)

\* A reading of an early year, with whole numbers written as floats.
ReadingM3 ==
    Reading(TimeOld, << DataPoint(S24, ValF(0)), DataPoint(S116, ValF(3500)),
                        DataPoint(S108, Val(7)) >>)

MultiReadings ==
    { <<>>, <<ReadingM1>>, <<ReadingM2, ReadingM1>>, <<ReadingM3>> }

\* A station whose name alone is as long as a message may be: the list of
\* stations that names it is sent in two messages.
LongName == [k \in 1..MAX_MESSAGE_LENGTH |-> "x"]

ListPayloads ==
    {NoneV, MalformedV} \cup { Payload(sl, <<ReadingM1>>) : sl \in MultiLists }
    \cup { Payload(<<Station(S107, LongName)>>, <<ReadingM1>>) }

WeatherPayloads ==
    {NoneV, MalformedV} \cup
    { Payload(sl, rd) : sl \in { l \in MultiLists : Len(l) # 1 },
                        rd \in MultiReadings \ {<<ReadingM3>>} }
    \cup { Payload(<<>>, <<ReadingM3>>) }

WindPayloads ==
    {NoneV, MalformedV} \cup
    { Payload(sl, rd) : sl \in MultiLists, rd \in MultiReadings }

WindArgs ==
    { <<>>,
      <<<<"a", "l", "l">>>>,
      <<<<"m", "a", "r", "i", "n", "a">>>>,
      <<<<"c", "h", "a", "n", "g", "i">>>>,
      <<<<"b", "a", "r", "r", "a", "g", "e">>>>,
      <<<<"s", "1", "1", "6">>>>,
      <<<<"n", "o", "w", "h", "e", "r", "e">>>>,
      <<<<"m", "a", "r", "i", "n", "a">>, <<"\n">>>> }

\* What the one fetch of /rainfall, /windspeed and /winddirection can
\* return.
SinglePayloads ==
    {NoneV, MalformedV} \cup
    { Payload(sl, rd) : sl \in StationLists, rd \in HandlerReadings }

\* rainfall_handler, from the return of its fetch to the reply it is
\* about to send.
rainfall_handler ==
    /\ hpc = "awaiting"
    /\ hcmd = "rainfall"
    /\ \E data \in SinglePayloads :
          /\ hfetch' = data
          /\ Decide(HandlerBody("rainfall", data, hargs))
    /\ UNCHANGED <<hcmd, hargs, hresults, hreplies, hquery, hanswered, hedits, hmessage>>
    /\ UNCHANGED <<fetchVars, pureVars, mainVars>>

\* wind_speed_handler
wind_speed_handler ==
    /\ hpc = "awaiting"
    /\ hcmd = "windspeed"
    /\ \E data \in SinglePayloads :
          /\ hfetch' = data
          /\ Decide(HandlerBody("windspeed", data, hargs))
    /\ UNCHANGED <<hcmd, hargs, hresults, hreplies, hquery, hanswered, hedits, hmessage>>
    /\ UNCHANGED <<fetchVars, pureVars, mainVars>>

\* wind_direction_handler
wind_direction_handler ==
    /\ hpc = "awaiting"
    /\ hcmd = "winddirection"
    /\ \E data \in SinglePayloads :
          /\ hfetch' = data
          /\ Decide(HandlerBody("winddirection", data, hargs))
    /\ UNCHANGED <<hcmd, hargs, hresults, hreplies, hquery, hanswered, hedits, hmessage>>
    /\ UNCHANGED <<fetchVars, pureVars, mainVars>>

\* weather_handler, from the return of get_all_weather_data to the reply
\* it is about to send.
weather_handler ==
    /\ hpc = "awaiting"
    /\ hcmd = "weather"
    /\ \E rs \in [Sources -> WeatherPayloads] :
          /\ hresults' = rs
          /\ Decide(Except("weather", WeatherBody(rs)))
    /\ UNCHANGED <<hcmd, hargs, hfetch, hreplies, hquery, hanswered, hedits, hmessage>>
    /\ UNCHANGED <<fetchVars, pureVars, mainVars>>

\* stations_handler
stations_handler ==
    /\ hpc = "awaiting"
    /\ hcmd = "stations"
    /\ \E rs \in [Sources -> ListPayloads] :
          /\ hresults' = rs
          /\ Decide(Except("stations", StationsBody(rs)))
    /\ UNCHANGED <<hcmd, hargs, hfetch, hreplies, hquery, hanswered, hedits, hmessage>>
    /\ UNCHANGED <<fetchVars, pureVars, mainVars>>

\* wind_handler: it fetches wind speed and wind direction only.
wind_handler ==
    /\ hpc = "awaiting"
    /\ hcmd = "wind"
    /\ \E speed \in WindPayloads, direction \in WindPayloads :
          /\ hresults' = <<PendingV, speed, direction>>
          /\ Decide(Except("wind", WindBody(hresults', hargs)))
    /\ UNCHANGED <<hcmd, hargs, hfetch, hreplies, hquery, hanswered, hedits, hmessage>>
    /\ UNCHANGED <<fetchVars, pureVars, mainVars>>

\* One await of reply_text: the next message of the reply is sent.  After
\* the last one the handler leaves its async with block, or, after the
\* reply of the except clause, returns.
Reply ==
    /\ hpc = "replying"
    /\ hreplies' = Append(hreplies, Head(hparts))
    /\ hparts' = Tail(hparts)
    /\ hpc' = IF hparts' # <<>> THEN "replying"
              ELSE IF hout.kind = "failed" THEN "done"
              ELSE "exiting"
    /\ UNCHANGED <<hcmd, hargs, hfetch, hresults, hout, hquery, hanswered, hedits, hmessage>>
    /\ UNCHANGED <<apiVars, fetchVars, pureVars, mainVars>>

\* The async with block is left after the reply of the try block:
\* __aexit__ closes the session and the handler returns.
Exit ==
    /\ hpc = "exiting"
    /\ sclosed' = aexit(FALSE)
    /\ hpc' = "done"
    /\ UNCHANGED <<session, client>>
    /\ UNCHANGED <<hcmd, hargs, hfetch, hresults, hout, hreplies, hparts,
                   hquery, hanswered, hedits, hmessage>>
    /\ UNCHANGED <<fetchVars, pureVars, mainVars>>

(***************************************************************************)
(* bot_handlers.py: the handlers that do not fetch.                        *)
(***************************************************************************)
\* The callback data of the buttons of the menu, row by row (lines
\* 124-133).
MenuButtons ==
    <<"weather", "rainfall", "rainfall_all", "windspeed", "windspeed_all",
      "winddirection", "winddirection_all", "wind", "stations">>

\* A handler that sends one message and returns.
SendOnly(cmd, reply) ==
    /\ hpc = "idle"
    /\ hcmd = cmd
    /\ hreplies' = Append(hreplies, reply)
    /\ hpc' = "done"
    /\ UNCHANGED <<hcmd, hargs, hfetch, hresults, hout, hparts, hquery, hanswered, hedits, hmessage>>
    /\ UNCHANGED <<apiVars, fetchVars, pureVars, mainVars>>

\* start_handler: the welcome message.
start_handler == SendOnly("start", [kind |-> "welcome", cmd |-> "start"])

\* help_handler: the help text.
help_handler == SendOnly("help", [kind |-> "help", cmd |-> "help"])

\* menu_handler: the menu text with the keyboard of the options.
menu_handler ==
    SendOnly("menu", [kind |-> "menu", cmd |-> "menu",
                      buttons |-> MenuButtons])

\* error_handler: the error is logged, and "Something went wrong" is sent
\* when the update has a message.
error_handler ==
    /\ hpc = "idle"
    /\ hcmd = "error"
    /\ hreplies' = IF hmessage
                   THEN Append(hreplies, [kind |-> "error", cmd |-> "error"])
                   ELSE hreplies
    /\ hpc' = "done"
    /\ UNCHANGED <<hcmd, hargs, hfetch, hresults, hout, hparts, hquery, hanswered, hedits, hmessage>>
    /\ UNCHANGED <<apiVars, fetchVars, pureVars, mainVars>>

\* The handler a callback is passed on to (lines 995-1019), "none" for
\* data that is no option of the menu.
HandlerOf(data) ==
    IF data = "weather" THEN "weather"
    ELSE IF data \in {"rainfall", "rainfall_all"} THEN "rainfall"
    ELSE IF data \in {"windspeed", "windspeed_all"} THEN "windspeed"
    ELSE IF data \in {"winddirection", "winddirection_all"}
         THEN "winddirection"
    ELSE IF data = "wind" THEN "wind"
    ELSE IF data = "stations" THEN "stations"
    ELSE "none"

\* context.args = ["all"] for the three *_all options.
ArgsOf(data, args) ==
    IF data \in {"rainfall_all", "windspeed_all", "winddirection_all"}
    THEN <<<<"a", "l", "l">>>>
    ELSE args

\* callback_query_handler, up to its first await: query.answer() is
\* called, and the handler gives way until the answer has returned.
callback_query_handler ==
    /\ hpc = "idle"
    /\ hcmd = "callback"
    /\ hanswered' = hanswered + 1
    /\ hpc' = "answered"
    /\ UNCHANGED <<hcmd, hargs, hfetch, hresults, hout, hreplies, hparts,
                   hquery, hedits, hmessage>>
    /\ UNCHANGED <<apiVars, fetchVars, pureVars, mainVars>>

\* callback_query_handler after the answer (lines 985-1024): for an option
\* of the menu context.args is set where the option says so and the
\* handler is called, on an update that carries the message of the query;
\* it runs to its first await, the "Fetching ..." notice.  For unknown
\* data the text of that message is set to "Unknown option selected".
Dispatch ==
    /\ hpc = "answered"
    /\ IF HandlerOf(hquery) # "none"
       THEN /\ hcmd' = HandlerOf(hquery)
            /\ hargs' = ArgsOf(hquery, hargs)
            /\ hreplies' = Append(hreplies, FetchingReply(hcmd'))
            /\ hpc' = "fetching"
            /\ UNCHANGED hedits
       ELSE /\ hedits' = Append(hedits, [kind |-> "unknown_option"])
            /\ hpc' = "done"
            /\ UNCHANGED <<hcmd, hargs, hreplies>>
    /\ UNCHANGED <<hfetch, hresults, hout, hparts, hquery, hanswered,
                   hmessage>>
    /\ UNCHANGED <<apiVars, fetchVars, pureVars, mainVars>>

\* The callback data of an update: the options of the menu, and data
\* that is none of them.
CallbackData ==
    { MenuButtons[k] : k \in 1..Len(MenuButtons) } \cup {"settings"}

\* The data points of the reading that get_station_reading is run on.
PointPool ==
    { DataPoint(id, v) : id \in {S108, S50},
                         v \in {NoneVal, Val(0), Val(7)} }

\* Values that cancel in decimal (0.1 + 0.2 - 0.3), halves and whole
\* numbers, for the sum of get_summary_stats.
SumPool == { DataPoint(S108, Val(v)) : v \in {1, 2, 0 - 3, 5, 10} }

\* Ten stations at 0.1: the sum is 0.9999999999999999.
TenPoints == [k \in 1..10 |-> DataPoint(S108, Val(1))]

PointLists ==
    UNION { [1..n -> PointPool] \cup [1..n -> SumPool] : n \in 0..MaxPoints }
    \cup {TenPoints}

\* Older readings, after index 0: they give other values to the stations.
OlderReadings ==
    { Reading(TimeOld, << DataPoint(S108, Val(9)), DataPoint(S50, Val(9)),
                          DataPoint(S24, Val(9)) >>),
      Reading(TimeOld, << DataPoint(S108, NoneVal) >>),
      Reading(TimeOld, <<>>) }

ReadingLists ==
    {<<>>} \cup
    { <<Reading(TimeOk, d)>> \o older :
        d \in PointLists,
        older \in UNION { [1..n -> OlderReadings] :
                            n \in 0..(MaxReadings - 1) } }

\* The station lists find_station_by_name is run on: the pool and a
\* station whose whole name is a part of another station's name.
NamePool ==
    StationPool \cup {Station(S999, <<"C", "h", "a", "n", "g", "i">>)}

NameLists ==
    { sl \in UNION { [1..n -> NamePool] : n \in 0..MaxStations } :
        \A a, b \in DOMAIN sl : a # b => sl[a] # sl[b] }

NameTokens ==
    { <<>>,
      <<"m", "a", "r", "i", "n", "a">>,
      <<"M", "A", "R", "I", "N", "A">>,
      <<"c", "h", "a", "n", "g", "i">>,
      <<"C", "h", "a", "n", "g", "i">>,
      <<"r", "o", "a", "d">>,
      <<"i", " ", "R">>,
      <<"b", "a", "r", "r", "a", "g", "e">>,
      <<"n", "o", "w", "h", "e", "r", "e">> }

\* The bearings get_wind_direction_text is run on, in tenths of a degree:
\* MaxTurns full turns below 0 and above.
MaxTurns == 2

Bearings == (0 - MaxTurns * Deg(360))..(MaxTurns * Deg(360))

\* The bearings next to 0 that are no multiple of a tenth: 1e-17 and -1e-17.
TinyBearings == { TinyVal(s) : s \in {0 - 1, 1} }

\* The values of TELEGRAM_BOT_TOKEN: unset, or a string of up to
\* MaxTokenLen characters, white space among them.
MaxTokenLen == 2

TokenChars == {" ", "\t", "\n", "7", "A"}

EnvValues ==
    {EnvUnset} \cup
    { EnvSet(s) : s \in UNION { [1..n -> TokenChars] : n \in 0..MaxTokenLen } }

FetchIdle ==
    /\ mode = "off"
    /\ pc = [i \in Sources |-> "idle"]
    /\ attempt = [i \in Sources |-> 0]
    /\ timer = [i \in Sources |-> 0]
    /\ resp = [i \in Sources |-> <<>>]
    /\ ret = [i \in Sources |-> PendingV]
    /\ task = [i \in Sources |-> PendingV]
    /\ waits = [i \in Sources |-> <<>>]
    /\ slept = [i \in Sources |-> 0]
    /\ log = [i \in Sources |-> <<>>]
    /\ finished = <<>>
    /\ pcC = "off"
    /\ results = [i \in Sources |-> PendingV]

HandlerIdle ==
    /\ hcmd = "none"
    /\ hargs = <<>>
    /\ hfetch = NoneV
    /\ hresults = [i \in Sources |-> NoneV]
    /\ hout = PendingV
    /\ hpc = "off"
    /\ hreplies = <<>>
    /\ hparts = <<>>
    /\ hquery = "none"
    /\ hanswered = 0
    /\ hedits = <<>>
    /\ hmessage = FALSE

ReadIdle ==
    /\ rreadings = <<>>
    /\ rstation = <<>>
    /\ rpc = "off"
    /\ rresult = NoneVal
    /\ spc = "off"
    /\ rstats = ZeroStats

NameIdle ==
    /\ nstations = <<>>
    /\ ntoken = <<>>
    /\ npc = "off"
    /\ nresult = NoStation
    /\ nsingle = NoStation
    /\ nwind = NoStation

DirIdle ==
    /\ dvalue = NoneVal
    /\ dpc = "off"
    /\ dresult = <<>>
    /\ dfrom = "none"

\* No WeatherAPI object yet.
ApiIdle ==
    /\ session = 0
    /\ sclosed = 0
    /\ client = [i \in Sources |-> 0]

\* A WeatherAPI object inside its async with block: __aenter__ has stored
\* a ClientSession in self.session.
ApiEntered ==
    /\ session = 1
    /\ sclosed = 0
    /\ client = [i \in Sources |-> 0]

MainIdle ==
    /\ menv = [set |-> FALSE, v |-> <<>>]
    /\ mpc = "off"
    /\ mapp = FALSE
    /\ mhandlers = <<>>
    /\ mweb = FALSE
    /\ mpolling = FALSE

PureIdle == ReadIdle /\ NameIdle /\ DirIdle

\* A command arrives: the handler is about to run.  A callback query comes
\* with context.args empty or left set; /weather and /stations and the
\* unknown option never read it.
HandlerInit ==
    /\ hpc = "idle"
    /\ hreplies = <<>>
    /\ hfetch = PendingV
    /\ hresults = [i \in Sources |-> PendingV]
    /\ hout = PendingV
    /\ hparts = <<>>
    /\ hanswered = 0
    /\ hedits = <<>>
    /\ \/ /\ hcmd \in {"rainfall", "windspeed", "winddirection"}
          /\ hargs \in ArgLists
          /\ hquery = "none" /\ hmessage = TRUE
       \/ /\ hcmd \in {"weather", "stations", "start", "help", "menu"}
          /\ hargs = <<>>
          /\ hquery = "none" /\ hmessage = TRUE
       \/ /\ hcmd = "wind"
          /\ hargs \in WindArgs
          /\ hquery = "none" /\ hmessage = TRUE
       \/ /\ hcmd = "callback"
          /\ hquery \in CallbackData /\ hmessage = TRUE
          /\ hargs \in IF HandlerOf(hquery) \in {"weather", "stations", "none"}
                       THEN {<<>>}
                       ELSE {<<>>, <<<<"m", "a", "r", "i", "n", "a">>>>}
       \/ /\ hcmd = "error"
          /\ hargs = <<>>
          /\ hquery = "none" /\ hmessage \in BOOLEAN

ReadInit ==
    /\ rreadings \in ReadingLists
    /\ rstation \in {S108, S50, S24, <<"s", "1", "0", "8">>}
    /\ rpc = "call"
    /\ rresult = NoneVal
    /\ spc = "call"
    /\ rstats = ZeroStats

NameInit ==
    /\ nstations \in NameLists
    /\ ntoken \in NameTokens
    /\ npc = "call"
    /\ nresult = NoStation
    /\ nsingle = PendingV
    /\ nwind = PendingV

DirInit ==
    /\ dvalue \in {NoneVal} \cup {Val(d) : d \in Bearings} \cup TinyBearings
    /\ dpc = "call"
    /\ dresult = <<>>
    /\ dfrom = "none"

\* The process starts: main() is called with the module-level BOT_TOKEN
\* read from the environment.
MainInit ==
    /\ menv \in EnvValues
    /\ mpc = "start"
    /\ mapp = FALSE
    /\ mhandlers = <<>>
    /\ mweb = FALSE
    /\ mpolling = FALSE

(***************************************************************************)
(* Initial states: one call of a get_*_data method, or one call of         *)
(* get_all_weather_data that has just created its three tasks.             *)
(***************************************************************************)
FetchInit ==
    /\ mode \in {"single", "all"}
    /\ \E active \in (IF mode = "all" THEN {Sources}
                      ELSE {{s} : s \in Sources}) :
         pc = [i \in Sources |-> IF i \in active THEN "request" ELSE "idle"]
    /\ attempt = [i \in Sources |-> 0]
    /\ timer = [i \in Sources |-> 0]
    /\ resp = [i \in Sources |-> <<>>]
    /\ ret = [i \in Sources |-> PendingV]
    /\ task = [i \in Sources |-> PendingV]
    /\ waits = [i \in Sources |-> <<>>]
    /\ slept = [i \in Sources |-> 0]
    /\ log = [i \in Sources |-> <<>>]
    /\ finished = <<>>
    /\ pcC = IF mode = "all" THEN "gather" ELSE "off"
    /\ results = [i \in Sources |-> PendingV]

vars == <<fetchVars, apiVars, handlerVars, pureVars, mainVars>>

Init == FetchInit /\ ApiEntered /\ HandlerIdle /\ PureIdle /\ MainIdle

Next ==
    \/ \E i \in Sources : Request(i)
    \/ \E i \in Sources : Response(i)
    \/ Tick
    \/ \E i \in Sources : Wake(i)
    \/ \E i \in Sources : FetchThrows(i)
    \/ Join

Spec == Init /\ [][Next]_vars

FairSpec == Spec /\ WF_vars(Join)

\* The handlers on every input of HandlerInit.
HandlerStart == FetchIdle /\ ApiIdle /\ HandlerInit /\ PureIdle /\ MainIdle

HandlerNext ==
    \/ start_handler
    \/ help_handler
    \/ menu_handler
    \/ error_handler
    \/ callback_query_handler
    \/ Dispatch
    \/ Notice
    \/ Enter
    \/ Gather
    \/ rainfall_handler
    \/ wind_speed_handler
    \/ wind_direction_handler
    \/ weather_handler
    \/ stations_handler
    \/ wind_handler
    \/ Reply
    \/ Exit

HandlerSpec == HandlerStart /\ [][HandlerNext]_vars

\* The event loop runs a handler that was invoked until it returns.
HandlerFairSpec == HandlerSpec /\ WF_vars(HandlerNext)

\* get_station_reading and get_summary_stats on every input of ReadInit.
ReadStart ==
    /\ FetchIdle /\ ApiIdle /\ HandlerIdle /\ MainIdle
    /\ ReadInit /\ NameIdle /\ DirIdle

ReadNext ==
    \/ GetStationReading
    \/ GetSummaryStats

ReadSpec == ReadStart /\ [][ReadNext]_vars

\* find_station_by_name on every input of NameInit.
NameStart ==
    /\ FetchIdle /\ ApiIdle /\ HandlerIdle /\ MainIdle
    /\ ReadIdle /\ NameInit /\ DirIdle

NameNext ==
    \/ FindStationByName
    \/ ResolveInWindSpeed
    \/ ResolveInWind

NameSpec == NameStart /\ [][NameNext]_vars

\* get_wind_direction_text on every input of DirInit.
DirStart ==
    /\ FetchIdle /\ ApiIdle /\ HandlerIdle /\ MainIdle
    /\ ReadIdle /\ NameIdle /\ DirInit

DirNext ==
    \/ GetWindDirectionText
    \/ WindFromChain

DirSpec == DirStart /\ [][DirNext]_vars

\* main() on every value of the token.
MainStart ==
    /\ FetchIdle /\ ApiIdle /\ HandlerIdle /\ PureIdle /\ MainInit

MainNext ==
    \/ ValidateToken
    \/ BuildApplication
    \/ AddHandler
    \/ KeepAlive
    \/ RunPolling

MainSpec == MainStart /\ [][MainNext]_vars

(***************************************************************************)
(* Vocabulary of the claims about the fetcher.                             *)
(***************************************************************************)
\* A failed attempt in the sense of the specification's error taxonomy:
\* a timeout, a connection error or other exception, a non-200 status, or
\* a 200 whose body cannot be used as a JSON object.
TransientFailure(o) ==
    \/ o.ev \in {"timeout", "exception"}
    \/ o.ev = "response" /\ o.status # 200
    \/ o.ev = "response" /\ o.status = 200 /\ o.parse # "dict"

\* HTTP 200 with a JSON object whose code is 0.
SuccessResponse(o) ==
    o.ev = "response" /\ o.status = 200 /\ o.parse = "dict" /\ o.hascode
    /\ o.code = 0

\* HTTP 200 with a JSON object whose code is not 0 (or is missing).
AppErrorResponse(o) ==
    o.ev = "response" /\ o.status = 200 /\ o.parse = "dict"
    /\ ~(o.hascode /\ o.code = 0)

RECURSIVE SumSeq(_)
SumSeq(q) == IF q = <<>> THEN 0 ELSE Head(q) + SumSeq(Tail(q))

\* The _make_request call of source i is over.
CallOver(i) == pc[i] = "done" /\ task[i] = ret[i]

\* C1: _make_request never raises: whatever its attempts met, a call that
\* is over returned a payload or None, and a call whose MAX_RETRIES
\* attempts all failed returned None.
C1_NeverRaises ==
    \A i \in Sources :
        /\ ret[i].tag \in {"pending", "none", "data"}
        /\ pc[i] = "done" /\ resp[i] # <<>> => ret[i].tag \in {"none", "data"}
        /\ (/\ Len(resp[i]) = MAX_RETRIES
            /\ \A k \in 1..MAX_RETRIES : TransientFailure(resp[i][k]))
           => pc[i] = "done" /\ ret[i] = NoneV

C1_Witness ==
    \E i \in Sources :
        /\ mode = "single"
        /\ resp[i] = <<OConnError, OUnparsable, OHttp500>>
        /\ ret[i] = NoneV

\* C2: get_all_weather_data returns the three slots in the order rainfall,
\* wind speed, wind direction whatever the order of completion: slot i is
\* the outcome of source i, None if that fetch raised, and the other slots
\* are untouched by it.
C2_SlotsInOrder ==
    pcC = "returned" =>
        /\ DOMAIN results = Sources
        /\ \A i \in Sources :
            /\ results[i].tag \in {"none", "data"}
            /\ task[i].tag = "exception" => results[i] = NoneV
            /\ task[i].tag # "exception" => results[i] = task[i]
            /\ results[i].tag = "data" =>
                  /\ results[i].src = i
                  /\ SuccessResponse(resp[i][Len(resp[i])])

C2_Witness ==
    /\ pcC = "returned"
    /\ task[2] = ExcV
    /\ results[2] = NoneV
    /\ results[1].tag = "data"
    /\ results[3].tag = "data"
    /\ finished = <<3, 2, 1>>

\* C3: at most MAX_RETRIES attempts; the wait after failed attempt k
\* (from 0) is 2^k, there is no wait after the last attempt, and a server
\* that fails twice and then succeeds is asked 3 times, with 1 + 2 units of
\* backoff, and its third body is returned.
C3_BackoffSchedule ==
    \A i \in Sources :
        /\ Len(resp[i]) <= MAX_RETRIES
        /\ Len(waits[i]) <= MAX_RETRIES - 1
        /\ \A k \in 1..Len(waits[i]) : waits[i][k] = 2 ^ (k - 1)
        /\ pc[i] = "sleep" => /\ Len(resp[i]) < MAX_RETRIES
                              /\ timer[i] <= 2 ^ (Len(resp[i]) - 1)
        /\ pc[i] \in {"request", "waiting"} =>
              /\ Len(waits[i]) = Len(resp[i])
              /\ slept[i] = SumSeq(waits[i])
        /\ CallOver(i) => /\ Len(waits[i]) = Len(resp[i]) - 1
                          /\ slept[i] = SumSeq(waits[i])
        /\ (/\ Len(resp[i]) = 3
            /\ TransientFailure(resp[i][1])
            /\ TransientFailure(resp[i][2])
            /\ SuccessResponse(resp[i][3]))
           => /\ slept[i] = 1 + 2
              /\ waits[i] = <<1, 2>>
              /\ ret[i] = DataV(i, 2, resp[i][3])

C3_Witness ==
    \E i \in Sources :
        /\ resp[i] = <<OTimeout, OHttp500, OSuccess>>
        /\ slept[i] = 3
        /\ ret[i].tag = "data"

\* C4: an application-level error is terminal: the attempt that receives
\* HTTP 200 with a code other than 0 is the last one, the call returns None
\* at once, and no backoff wait follows it.
C4_AppErrorTerminal ==
    \A i \in Sources :
        \A k \in 1..Len(resp[i]) :
            AppErrorResponse(resp[i][k]) =>
                /\ k = Len(resp[i])
                /\ pc[i] = "done"
                /\ ret[i] = NoneV
                /\ Len(waits[i]) = k - 1
                /\ slept[i] = SumSeq(waits[i])
                /\ ~ENABLED Request(i)
                /\ ~ENABLED Response(i)
                /\ ~ENABLED Wake(i)

C4_Witness ==
    \E i \in Sources :
        /\ resp[i] = <<OTimeout, OAppError>>
        /\ pc[i] = "done"
        /\ ret[i] = NoneV

\* C5: a payload is returned only for HTTP 200 with code 0; it is the body
\* of that attempt, which is the first attempt that is no transient
\* failure, and no attempt follows it.
C5_PayloadOnlyOnSuccess ==
    \A i \in Sources :
        ret[i].tag = "data" =>
            LET n == Len(resp[i])
            IN  /\ n >= 1
                /\ SuccessResponse(resp[i][n])
                /\ ret[i] = DataV(i, n - 1, resp[i][n])
                /\ \A k \in 1..(n - 1) : TransientFailure(resp[i][k])
                /\ pc[i] = "done"
                /\ ~ENABLED Request(i)
                /\ ~ENABLED Response(i)

C5_Witness ==
    \E i \in Sources :
        /\ resp[i] = <<OUnparsable, OSuccess>>
        /\ ret[i] = DataV(i, 1, OSuccess)

\* C6: a fetch waiting in its backoff neither blocks nor cancels the
\* others: a fetch that is ready for its next step can take it while
\* another one sleeps, and every fetch stops exactly at its own first
\* non-transient response or after its own MAX_RETRIES failures.
C6_BackoffIsolated ==
    mode = "all" =>
        \A i \in Sources : \A j \in Sources \ {i} :
            /\ pc[i] = "sleep" /\ pc[j] = "request" => ENABLED Request(j)
            /\ pc[i] = "sleep" /\ pc[j] = "waiting" => ENABLED Response(j)
            /\ pc[i] = "sleep" /\ pc[j] = "sleep" /\ timer[j] = 0
                  => ENABLED Wake(j)
            /\ CallOver(j) =>
                  /\ Len(resp[j]) >= 1
                  /\ \A k \in 1..(Len(resp[j]) - 1) :
                        TransientFailure(resp[j][k])
                  /\ \/ ~TransientFailure(resp[j][Len(resp[j])])
                     \/ Len(resp[j]) = MAX_RETRIES
            /\ pc[j] # "done" => task[j] = PendingV

C6_Witness ==
    /\ mode = "all"
    /\ pc[1] = "sleep"
    /\ timer[1] = 2
    /\ Len(resp[2]) = 2
    /\ pc[2] = "done"
    /\ pc[3] = "request"
    /\ Len(resp[3]) = 1

\* Every one of the three fetches has reached a final outcome.
AllFetchesOver == \A i \in Sources : pc[i] = "done"

\* C7: get_all_weather_data returns only after all three fetches are over,
\* never while one is still attempting or waiting in backoff, and once all
\* three are over it does return.
C7_ReturnsAfterAll ==
    /\ [](pcC = "returned" => AllFetchesOver)
    /\ ((mode = "all" /\ AllFetchesOver) ~> (pcC = "returned"))

C7_Witness ==
    /\ pcC = "returned"
    /\ Len(resp[1]) = MAX_RETRIES
    /\ Len(resp[2]) = 1
    /\ results[3].tag = "data"

(***************************************************************************)
(* Vocabulary of the claims about the handlers.                            *)
(***************************************************************************)
\* The handler has sent its last reply.
HandlerDone == hpc = "done" /\ Len(hreplies) = 2

LastReply == hreplies[Len(hreplies)]

\* The handler was given a payload and a station token (not "all").
InStationBranch ==
    /\ hfetch.tag = "data"
    /\ StationQuery(hargs) # <<>>
    /\ Lower(StationQuery(hargs)) # <<"a", "l", "l">>

\* The station the alias table names for the token, if it is listed.
ByAlias(stations, query) ==
    IF \E p \in STATION_ALIASES : p[1] = Lower(query)
    THEN LET id == (CHOOSE p \in STATION_ALIASES : p[1] = Lower(query))[2]
         IN  IF \E k \in 1..Len(stations) : Upper(stations[k].id) = Upper(id)
             THEN stations[CHOOSE k \in 1..Len(stations) :
                              /\ Upper(stations[k].id) = Upper(id)
                              /\ \A j \in 1..(k - 1) :
                                    Upper(stations[j].id) # Upper(id)]
             ELSE NoStation
    ELSE NoStation

\* The first listed station whose name contains the token.
ByName(stations, query) ==
    IF \E k \in 1..Len(stations) :
           IsSubstring(Lower(query), Lower(stations[k].name))
    THEN stations[CHOOSE k \in 1..Len(stations) :
                     /\ IsSubstring(Lower(query), Lower(stations[k].name))
                     /\ \A j \in 1..(k - 1) :
                           ~IsSubstring(Lower(query), Lower(stations[j].name))]
    ELSE NoStation

\* The first listed station whose id is the token.
ById(stations, query) ==
    IF \E k \in 1..Len(stations) : Upper(stations[k].id) = Upper(query)
    THEN stations[CHOOSE k \in 1..Len(stations) :
                     /\ Upper(stations[k].id) = Upper(query)
                     /\ \A j \in 1..(k - 1) :
                           Upper(stations[j].id) # Upper(query)]
    ELSE NoStation

\* Alias, then name, then id: the first resolution that finds a station.
ByPrecedence(stations, query) ==
    IF ByAlias(stations, query) # NoStation THEN ByAlias(stations, query)
    ELSE IF ByName(stations, query) # NoStation THEN ByName(stations, query)
    ELSE ById(stations, query)

\* C8: in the station-query branch the token is resolved by alias, then by
\* name substring, then by id, the first that succeeds deciding the
\* station, and 'Station not found' is sent only when all three fail on
\* the source's station list.
C8_ResolutionPrecedence ==
    HandlerDone /\ InStationBranch =>
        LET want == ByPrecedence(hfetch.stations, StationQuery(hargs))
        IN  /\ LastReply.kind = "not_found" <=> want = NoStation
            /\ LastReply.kind = "station" => LastReply.id = want.id

\* C9: alias wins over name substring: when the token is an alias and the
\* aliased id is in the station list, the handler answers for the station
\* with that id, whatever other station names contain the token and
\* wherever they stand in the list.
C9_AliasWins ==
    HandlerDone /\ InStationBranch =>
        LET stations == hfetch.stations
            want == ByAlias(stations, StationQuery(hargs))
        IN  want # NoStation =>
                /\ LastReply.kind # "not_found"
                /\ hfetch.readings # <<>> =>
                      /\ LastReply.kind = "station"
                      /\ LastReply.id = want.id
                      /\ LastReply.name = want.name

C9_Witness ==
    /\ HandlerDone
    /\ hargs = <<<<"M", "A", "R", "I", "N", "A">>>>
    /\ hfetch.tag = "data"
    /\ Len(hfetch.stations) = 3
    /\ hfetch.stations[1].id = S116
    /\ hfetch.stations[3].id = S108
    /\ LastReply.kind = "station"
    /\ LastReply.id = S108

\* The value of the first entry for station id in the data points, None
\* when there is no entry.
FirstEntry(data, id) ==
    IF \E k \in 1..Len(data) : data[k].stationId = id
    THEN data[CHOOSE k \in 1..Len(data) :
                 /\ data[k].stationId = id
                 /\ \A j \in 1..(k - 1) : data[j].stationId # id].value
    ELSE NoneVal

\* C10: get_station_reading consults readings[0] only: it returns the value
\* of the station's entry there (0 as 0), None when there is no entry or no
\* reading, and the same result for every other tail of older readings.
C10_LatestReadingOnly ==
    rpc = "done" =>
        /\ rreadings = <<>> => rresult = NoneVal
        /\ rreadings # <<>> =>
              /\ rresult = FirstEntry(rreadings[1].data, rstation)
              /\ \A other \in ReadingLists :
                    other # <<>> /\ other[1] = rreadings[1]
                        => get_station_reading(other, rstation) = rresult

C10_Witness ==
    /\ rpc = "done"
    /\ Len(rreadings) = 2
    /\ rstation = S108
    /\ rreadings[1].data = << DataPoint(S50, Val(7)), DataPoint(S108, Val(0)) >>
    /\ rreadings[2].data # <<>>
    /\ rreadings[2].data[1] = DataPoint(S108, Val(9))
    /\ rresult = Val(0)

(***************************************************************************)
(* Vocabulary of the claims about the pure functions.                      *)
(***************************************************************************)
\* The indices of the data points that carry a value.
WithValue(data) == { k \in 1..Len(data) : data[k].value.some }

\* The number v of the feed, in tenths, as the float it is.
FloatOf(v) == RoundFloat([d |-> v, e |-> 0, c |-> 10, r |-> 0, t |-> 0])

\* a <= b for two floats (d * 2^62 + e + r / 2^t) / (c * 2^62), of which
\* at most one has a part r / 2^t: the decimal parts decide, the errors
\* where these are equal, and the sign of r where the errors are equal too.
FloatLeq(a, b) ==
    \/ a.d * b.c < b.d * a.c
    \/ a.d * b.c = b.d * a.c /\ a.e * b.c < b.e * a.c
    \/ a.d * b.c = b.d * a.c /\ a.e * b.c = b.e * a.c /\ a.r <= b.r

\* |x|
Abs(x) == IF x < 0 THEN 0 - x ELSE x

\* The values of the data points that carry one, in tenths, in order.
ValuesOf(data) ==
    LET with == SelectSeq(data, LAMBDA p : p.value.some)
    IN  [k \in 1..Len(with) |-> with[k].value.v]

\* No addition of sum(values) rounds: after each value the error of the
\* sum is the errors that the values, as floats, brought with them.
ExactAdditions(values) ==
    \A k \in 1..Len(values) :
        FloatSum(SubSeq(values, 1, k)).e
            = SumSeq([i \in 1..k |-> FloatOf(values[i]).e])

\* x is a float: a whole number of units of the last of its 53 bits.  For
\* x = s * (a * 2^62 + b) / (c * 2^62) of exponent ex the unit is
\* c * 2^(10 + ex) of the units of b; for x = (e + r / 2^t) / (c * 2^62)
\* the quotient e * 2^t / c has 53 bits, and r makes it whole.
IsFloat(x) ==
    IF x.d # 0
    THEN LET s == IF x.d < 0 THEN 0 - 1 ELSE 1
             ex == FloatExponent(s * x.d, s * x.e, x.c, Exponent(s * x.d, x.c))
             m == (((s * x.d) % x.c) * PowMod(52 - ex, x.c)) % x.c
         IN  /\ x.r = 0
             /\ (Pow2(10 + ex) * m + s * x.e) % (x.c * Pow2(10 + ex)) = 0
    ELSE IF x.e = 0 THEN x.r = 0
    ELSE LET s == IF x.e < 0 THEN 0 - 1 ELSE 1
             t == 52 - TinyExponent(s * x.e, x.c)
         IN  /\ x.r = 0 \/ x.t = t
             /\ (((s * x.e) % x.c) * PowMod(t, x.c) + s * x.r) % x.c = 0

\* avg is total / n rounded to a float: it differs from the quotient by at
\* most 2^-53 times the quotient.  With total = (D * 2^62 + e) / (10 * 2^62)
\* the difference is (err - e + rem / 2^shift) / (10 * n * 2^62).
DivisionRounded(total, avg) ==
    /\ avg.num = total.d
    /\ IF total.d # 0
       THEN avg.rem = 0 /\ Abs(avg.err - total.e) <= 512 * Abs(total.d)
       ELSE /\ avg.err = total.e
            /\ \/ avg.rem = 0
               \/ /\ avg.shift >= 53
                  /\ Abs(avg.rem) <= Abs(total.e) * Pow2(avg.shift - 53)
               \/ /\ avg.shift < 53
                  /\ Abs(avg.rem) <= Abs(total.e) \div Pow2(53 - avg.shift)

\* The reference of C11: count, min, max and the exact sum of the values
\* of readings[0] that are not None.
C11_Reference(stats, data) ==
    LET idx == WithValue(data)
        total == SumSeq([k \in 1..Len(data) |->
                           IF k \in idx THEN data[k].value.v ELSE 0])
    IN  /\ stats.count = Cardinality(idx)
        /\ \E k \in idx : stats.min = data[k].value.v
        /\ \A k \in idx : stats.min <= data[k].value.v
        /\ \E k \in idx : stats.max = data[k].value.v
        /\ \A k \in idx : stats.max >= data[k].value.v
        /\ stats.avg.num = total
        /\ stats.avg.den = Cardinality(idx)

\* C11 as claimed: get_summary_stats is computed over the non-None values
\* of readings[0] only: count is their number, min and max their least and
\* greatest, avg their sum over count, so that min <= avg <= max; with no
\* reading, or no value in the first reading, the result is exactly
\* {min: 0, max: 0, avg: 0, count: 0}.
C11_AvgBetweenMinAndMax ==
    spc = "done" =>
        IF rreadings = <<>> \/ WithValue(rreadings[1].data) = {}
        THEN rstats = [min |-> 0, max |-> 0,
                       avg |-> [num |-> 0, den |-> 1, err |-> 0,
                                rem |-> 0, shift |-> 0],
                       count |-> 0]
        ELSE LET avg == [d |-> rstats.avg.num, e |-> rstats.avg.err,
                         c |-> 10 * rstats.avg.den,
                         r |-> rstats.avg.rem, t |-> rstats.avg.shift]
             IN  /\ C11_Reference(rstats, rreadings[1].data)
                 /\ FloatLeq(FloatOf(rstats.min), avg)
                 /\ FloatLeq(avg, FloatOf(rstats.max))

\* C11, amended: get_summary_stats is computed over the non-None values of
\* readings[0] only: count is their number, min and max their least and
\* greatest, avg their sum over count as floating-point arithmetic computes
\* it: the values are added in order, each addition rounded, and the sum
\* is divided by count and rounded to the nearest float.  min <= avg <= max
\* holds whenever no addition of the sum rounds, and can fail otherwise;
\* with no reading, or no value in the first reading, the result is
\* exactly {min: 0, max: 0, avg: 0, count: 0}.
C11_SummaryStats ==
    spc = "done" =>
        IF rreadings = <<>> \/ WithValue(rreadings[1].data) = {}
        THEN rstats = [min |-> 0, max |-> 0,
                       avg |-> [num |-> 0, den |-> 1, err |-> 0,
                                rem |-> 0, shift |-> 0],
                       count |-> 0]
        ELSE LET values == ValuesOf(rreadings[1].data)
                 avg == [d |-> rstats.avg.num, e |-> rstats.avg.err,
                         c |-> 10 * rstats.avg.den,
                         r |-> rstats.avg.rem, t |-> rstats.avg.shift]
             IN  /\ C11_Reference(rstats, rreadings[1].data)
                 /\ IsFloat(avg)
                 /\ DivisionRounded(FloatSum(values), rstats.avg)
                 /\ ExactAdditions(values) =>
                       /\ FloatLeq(FloatOf(rstats.min), avg)
                       /\ FloatLeq(avg, FloatOf(rstats.max))

\* Three values 0.5, 1.0 and 1.0: every addition is exact,
\* the sum is 2.5 and avg the float next to 2.5 / 3, 0.8333333333333334,
\* from min to max.
C11_Witness ==
    /\ spc = "done"
    /\ Len(rreadings) = 2
    /\ rreadings[1].data = << DataPoint(S108, Val(5)), DataPoint(S108, Val(10)),
                              DataPoint(S108, Val(10)) >>
    /\ rreadings[2].data # <<>>
    /\ rreadings[2].data[1] = DataPoint(S108, Val(9))
    /\ ExactAdditions(<<5, 10, 10>>)
    /\ rstats.min = 5 /\ rstats.max = 10 /\ rstats.count = 3
    /\ rstats.avg.num = 25 /\ rstats.avg.den = 3 /\ rstats.avg.err > 0

\* d mod 360 in tenths of a degree: the bearing in [0, 360) that differs
\* from d by whole turns.
Mod360(d) ==
    CHOOSE r \in 0..(Deg(360) - 1) :
        \E q \in (0 - MaxTurns - 1)..(MaxTurns + 1) : d = q * Deg(360) + r

\* d mod 360 of a bearing as a value: the float nearest the bearing in
\* [0, 360) that differs from d by whole turns.  For d = -1e-17 that
\* bearing is 360 - 1e-17, and the float nearest to it is 360.0.
Residue(value) ==
    IF "tiny" \in DOMAIN value
    THEN IF value.tiny < 0 THEN Val(Deg(360)) ELSE value
    ELSE Val(Mod360(value.v))

\* C12: for every bearing d, negative ones and ones of 360 or more
\* included, get_wind_direction_text(d) is what it returns for d mod 360.
C12_NormalizationIdempotent ==
    dpc = "done" /\ dvalue.some =>
        dresult = get_wind_direction_text(Residue(dvalue))

\* The distance between two bearings of [0, 360) around the compass circle.
CircularDistance(a, b) ==
    IF AbsDiff(a, b) <= Deg(180) THEN AbsDiff(a, b)
    ELSE Deg(360) - AbsDiff(a, b)

\* The anchors within 22.5 degrees of d mod 360, around the circle.
AnchorsNear(d) ==
    { k \in 1..Len(WIND_DIRECTIONS) :
        2 * CircularDistance(Mod360(d), WIND_DIRECTIONS[k].deg) <= Deg(45) }

\* C13: when d mod 360 is within 22.5 degrees of an anchor, the distance
\* taken around the circle so that N is also near from just below 360,
\* get_wind_direction_text returns the label of such an anchor and not a
\* hyphenated composite.
C13_AnchorWithinHalfOctant ==
    dpc = "done" /\ dvalue.some /\ AnchorsNear(dvalue.v) # {} =>
        \E k \in AnchorsNear(dvalue.v) :
            dresult = <<WIND_DIRECTIONS[k].label>>

\* The bearing midway between anchor k and the next anchor.
Midpoint(k) == WIND_DIRECTIONS[k].deg + Deg(45) \div 2

\* The anchor after anchor k, around the circle.
NextAnchor(k) == (k % Len(WIND_DIRECTIONS)) + 1

\* C14: get_wind_direction_text(0) is N, get_wind_direction_text(45) is NE,
\* and at every bearing midway between two neighbouring anchors (22.5,
\* 67.5, ..., 337.5) the result is the label of one of the two, never a
\* composite.
C14_BoundaryAnchors ==
    dpc = "done" =>
        /\ dvalue = Val(Deg(0)) => dresult = <<"N">>
        /\ dvalue = Val(Deg(45)) => dresult = <<"NE">>
        /\ \A k \in 1..Len(WIND_DIRECTIONS) :
              dvalue = Val(Midpoint(k)) =>
                  \/ dresult = <<WIND_DIRECTIONS[k].label>>
                  \/ dresult = <<WIND_DIRECTIONS[NextAnchor(k)].label>>

C14_Witness ==
    /\ dpc = "done"
    /\ dvalue = Val(3375)
    /\ dresult = <<"NW">>

\* C19: find_station_by_name returns the first station of the list whose
\* lower-cased name contains the lower-cased token, and None exactly when
\* no name contains it; a later station whose name is the token itself is
\* not preferred.
C19_FirstSubstringMatch ==
    npc = "done" =>
        LET hits == { k \in 1..Len(nstations) :
                        IsSubstring(Lower(ntoken), Lower(nstations[k].name)) }
        IN  /\ nresult = NoStation <=> hits = {}
            /\ hits # {} =>
                  \E k \in hits : /\ \A j \in hits : k <= j
                                  /\ nresult = nstations[k]

C19_Witness ==
    /\ npc = "done"
    /\ ntoken = <<"c", "h", "a", "n", "g", "i">>
    /\ Len(nstations) = 2
    /\ nstations[1].id = S24
    /\ nstations[2].name = <<"C", "h", "a", "n", "g", "i">>
    /\ nresult = nstations[1]

(***************************************************************************)
(* Vocabulary of the claims about the handlers that fetch several sources. *)
(***************************************************************************)
\* Source i returned a payload of the data model: stations and readings.
Returned(i) == hresults[i] # NoneV /\ hresults[i].tag = "data"

\* The section of the overview for source i.
SectionOf(reply, i) ==
    IF i = 1 THEN reply.rainfall
    ELSE IF i = 2 THEN reply.windspeed
    ELSE reply.winddirection

\* C15: partial failure is never blocking: in weather_handler, whenever at
\* least one source returned a payload and the others are Absent, the
\* overview is sent, with a section for each source that returned a
\* payload and none for an Absent one, and no error message is sent.
C15_PartialFailureNotBlocking ==
    /\ HandlerDone
    /\ hcmd = "weather"
    /\ \E i \in Sources : Returned(i)
    /\ \A i \in Sources : Returned(i) \/ hresults[i] = NoneV
    => /\ LastReply.kind = "overview"
       /\ \A i \in Sources : SectionOf(LastReply, i).present <=> Returned(i)

\* The handler has returned or its exception has left it.
HandlerOver == hpc \in {"done", "raised"}

\* The handlers that fetch one source.
SingleSource == {"rainfall", "windspeed", "winddirection"}

\* Every source the handler fetched is Absent.
AllAbsent ==
    IF hcmd \in SingleSource THEN hfetch = NoneV
    ELSE IF hcmd = "weather" THEN \A i \in Sources : hresults[i] = NoneV
    ELSE hcmd = "wind" /\ hresults[2] = NoneV /\ hresults[3] = NoneV

\* C16: total failure: when every source a handler fetched is Absent (the
\* three of weather_handler, the two of wind_handler, the one of the
\* rainfall, wind speed and wind direction handlers), the handler sends
\* exactly one 'Unable to fetch ... try again later' message after the
\* notice, whatever the words after the command, renders no data and ends
\* without an exception.
C16_TotalFailure ==
    HandlerOver /\ AllAbsent =>
        /\ hpc = "done"
        /\ hreplies = << [kind |-> "fetching", cmd |-> hcmd],
                         [kind |-> "unable", cmd |-> hcmd] >>

C16_Witness ==
    /\ hpc = "done"
    /\ hcmd = "wind"
    /\ hargs = <<<<"m", "a", "r", "i", "n", "a">>>>
    /\ hresults[2] = NoneV
    /\ hresults[3] = NoneV
    /\ Len(hreplies) = 2
    /\ hreplies[2].kind = "unable"

\* The token is a key of the alias table.
IsAlias(query) == \E p \in STATION_ALIASES : p[1] = Lower(query)

\* The station the handler answers for: the aliased one for an alias, for
\* any other token the first by name and, failing that, the first by id.
Resolved(stations, query) ==
    IF IsAlias(query) THEN ByAlias(stations, query)
    ELSE IF ByName(stations, query) # NoStation THEN ByName(stations, query)
    ELSE ById(stations, query)

\* C17: a lookup miss and a network failure are distinct: in the rainfall,
\* wind speed and wind direction handlers 'Station not found' is sent only
\* when the fetch returned a payload and the token resolved to no station,
\* 'Unable to fetch' is sent whenever the fetch is Absent, whatever the
\* token, and a listed station without a value in the freshest reading is
\* answered with 'No data', not with 'Station not found'.
C17_MissVersusFailure ==
    HandlerDone /\ hcmd \in SingleSource =>
        /\ hfetch = NoneV <=> LastReply.kind = "unable"
        /\ LastReply.kind = "not_found" =>
              /\ InStationBranch
              /\ Resolved(hfetch.stations, StationQuery(hargs)) = NoStation
        /\ InStationBranch /\ hfetch.readings # <<>> =>
              LET station == Resolved(hfetch.stations, StationQuery(hargs))
              IN  /\ station # NoStation
                  /\ ~FirstEntry(hfetch.readings[1].data, station.id).some
                  => /\ LastReply.kind = "station"
                     /\ LastReply.id = station.id
                     /\ LastReply.reading = NoneVal
                     /\ LastReply.note = "No data"

C17_Witness ==
    /\ HandlerDone
    /\ hcmd = "winddirection"
    /\ hargs = <<<<"S", "2", "4">>>>
    /\ hfetch.tag = "data"
    /\ hfetch.readings = <<ReadingA>>
    /\ LastReply.kind = "station"
    /\ LastReply.id = S24
    /\ LastReply.note = "No data"

\* C18: every invocation of a command handler ends with at least one
\* reply after its 'Fetching' notice (a result, a not-found message or an
\* error message), for every fetch outcome and every payload shape, and
\* no exception leaves the handler.
C18_AlwaysReplies ==
    /\ [](hpc # "raised")
    /\ (\/ hpc = "idle" /\ hcmd \in FetchCommands
        \/ hpc = "answered" /\ HandlerOf(hquery) # "none") ~>
          (/\ hpc = "done"
           /\ Len(hreplies) >= 2
           /\ hreplies[1].kind = "fetching"
           /\ LastReply.kind \in {"unable", "not_found", "failed", "station",
                                  "all", "summary", "overview", "stations",
                                  "part"})

C18_Witness ==
    /\ hpc = "done"
    /\ hcmd = "stations"
    /\ hresults[2] = MalformedV
    /\ hreplies = << [kind |-> "fetching", cmd |-> "stations"],
                     [kind |-> "failed", cmd |-> "stations"] >>

\* The name of source i as a data type of the station view.
DataType(i) ==
    IF i = 1 THEN "rainfall"
    ELSE IF i = 2 THEN "wind_speed"
    ELSE "wind_direction"

\* The sources that returned a payload whose station list has the id.
SourcesListing(id) ==
    { i \in Sources :
        /\ Returned(i)
        /\ \E k \in 1..Len(hresults[i].stations) :
              hresults[i].stations[k].id = id }

\* The ids in the station list of at least one available source.
ListedIds ==
    UNION { { hresults[i].stations[k].id :
                k \in 1..Len(hresults[i].stations) } :
            i \in { j \in Sources : Returned(j) } }

\* C20: the station view of stations_handler is merged by id: every id in
\* the station list of at least one available source appears exactly
\* once, Absent sources contribute nothing, and the data types shown for
\* an id are exactly the sources whose station list contains it.
C20_MergedById ==
    /\ HandlerDone
    /\ hcmd = "stations"
    /\ \A i \in Sources : Returned(i) \/ hresults[i] = NoneV
    /\ ListedIds # {}
    => /\ LastReply.kind = "stations"
       /\ \A id \in ListedIds :
             Cardinality({ k \in 1..Len(LastReply.rows) :
                             LastReply.rows[k].id = id }) = 1
       /\ \A k \in 1..Len(LastReply.rows) :
             LET row == LastReply.rows[k]
             IN  /\ row.id \in ListedIds
                 /\ { row.indicators[n] : n \in 1..Len(row.indicators) }
                       = { DataType(i) : i \in SourcesListing(row.id) }
                 /\ Len(row.indicators) = Cardinality(SourcesListing(row.id))

C20_Witness ==
    /\ HandlerDone
    /\ hcmd = "stations"
    /\ hresults[1] = NoneV
    /\ Returned(2)
    /\ Returned(3)
    /\ LastReply.kind = "stations"
    /\ Len(LastReply.rows) = 3
    /\ LastReply.rows[1].id = S116
    /\ LastReply.rows[1].indicators = <<"wind_speed", "wind_direction">>
    /\ LastReply.rows[3].id = S24
    /\ LastReply.rows[3].indicators = <<"wind_speed">>

(***************************************************************************)
(* The log of _make_request and the forms of a bad HTTP 200 response.      *)
(***************************************************************************)
\* The entries _make_request writes for a failed attempt.
AttemptEntries ==
    {"warning-timeout", "error-exception", "warning-http", "error-code"}

\* C22: every failed attempt writes a log entry, and a call whose
\* MAX_RETRIES attempts all failed transiently has written those
\* MAX_RETRIES entries followed by one more entry for the exhaustion.
C22_ExhaustionLogged ==
    \A i \in Sources :
        /\ \A k \in 1..Len(resp[i]) :
               ~SuccessResponse(resp[i][k]) =>
                   /\ Len(log[i]) >= k
                   /\ log[i][k] \in AttemptEntries
        /\ (/\ CallOver(i)
            /\ Len(resp[i]) = MAX_RETRIES
            /\ \A k \in 1..MAX_RETRIES : TransientFailure(resp[i][k]))
           => /\ Len(log[i]) = MAX_RETRIES + 1
              /\ log[i][MAX_RETRIES + 1] \notin AttemptEntries

\* A 200 whose body is a JSON object without code 0.
BadCode(o) ==
    o.ev = "response" /\ o.status = 200 /\ o.parse = "dict"
    /\ ~(o.hascode /\ o.code = 0)

\* A 200 whose body cannot be decoded, or whose handling raises.
BadBody(o) ==
    o.ev = "response" /\ o.status = 200 /\ o.parse \in {"unparsable", "nondict"}

\* C30: a 200 whose body parses but has no code 0 (a missing code field
\* included) ends the call at once with None, without a wait or another
\* attempt; a 200 whose body does not parse, or whose handling raises, is
\* a failed attempt like a timeout: it is logged as an exception, followed
\* by the backoff 2^k and the next attempt while attempts are left, and
\* the call ends with None only when it was the last attempt.
C30_BadResponseByForm ==
    \A i \in Sources :
        \A k \in 1..Len(resp[i]) :
            /\ BadCode(resp[i][k]) =>
                  /\ k = Len(resp[i])
                  /\ CallOver(i) /\ ret[i] = NoneV
                  /\ Len(waits[i]) = k - 1
                  /\ log[i][k] = "error-code"
            /\ BadBody(resp[i][k]) =>
                  /\ log[i][k] = "error-exception"
                  /\ (k < MAX_RETRIES /\ Len(resp[i]) = k) =>
                        /\ \/ pc[i] = "sleep"
                           \/ /\ pc[i] \in {"request", "waiting"}
                              /\ attempt[i] = k
                        /\ pc[i] = "sleep" => timer[i] <= 2 ^ (k - 1)
                        /\ ret[i] = PendingV
                  /\ Len(resp[i]) > k => waits[i][k] = 2 ^ (k - 1)
                  /\ k = MAX_RETRIES => CallOver(i) /\ ret[i] = NoneV

C30_Witness ==
    \E i \in Sources :
        /\ resp[i] = <<ONonDict, OUnparsable, ONoCode>>
        /\ waits[i] = <<1, 2>>
        /\ CallOver(i)
        /\ ret[i] = NoneV

(***************************************************************************)
(* Start-up.                                                               *)
(***************************************************************************)
\* TELEGRAM_BOT_TOKEN is unset, empty or only whitespace.
TokenAbsent(env) ==
    ~env.set \/ \A k \in 1..Len(env.v) : env.v[k] \in {" ", "\t", "\n", "\r"}

\* C21: with TELEGRAM_BOT_TOKEN unset, empty or only whitespace, main
\* raises at its validation: the application is never built, no handler is
\* registered, the keep-alive web thread is not started and polling does
\* not begin; with any other token the validation passes.
C21_FailFastOnMissingToken ==
    /\ TokenAbsent(menv) =>
          /\ mpc \in {"off", "start", "raised"}
          /\ ~mapp /\ mhandlers = <<>> /\ ~mweb /\ ~mpolling
          /\ ~ENABLED BuildApplication
          /\ ~ENABLED AddHandler
          /\ ~ENABLED KeepAlive
          /\ ~ENABLED RunPolling
    /\ mpc = "raised" => TokenAbsent(menv)

C21_Witness ==
    /\ menv = EnvSet(<<" ", "\t">>)
    /\ mpc = "raised"
    /\ ~mapp /\ mhandlers = <<>> /\ ~mweb /\ ~mpolling

(***************************************************************************)
(* The two renderings of a wind direction, and the two resolutions.        *)
(***************************************************************************)
\* The compass abbreviation of a "Wind from ..." description.
Abbreviation(desc) ==
    CASE desc = "North" -> "N"
      [] desc = "Northeast" -> "NE"
      [] desc = "East" -> "E"
      [] desc = "Southeast" -> "SE"
      [] desc = "South" -> "S"
      [] desc = "Southwest" -> "SW"
      [] desc = "West" -> "W"
      [] desc = "Northwest" -> "NW"
      [] OTHER -> "none"

\* C27: for every wind-direction reading the label of
\* get_wind_direction_text and the handler's "Wind from ..." description
\* name the same one of the eight directions, at the 22.5-degree
\* boundaries, between 337.5 and 360 and outside [0, 360) too.
C27_LabelMatchesDescription ==
    dpc = "described" => dresult = <<Abbreviation(dfrom)>>

\* C28: on the same station list and token, /wind selects the station
\* that /windspeed and /winddirection select, or both find none.
C28_SameResolution ==
    (nsingle # PendingV /\ nwind # PendingV) =>
        /\ nsingle = NoStation <=> nwind = NoStation
        /\ nsingle # NoStation => nsingle.id = nwind.id

(***************************************************************************)
(* The network session.                                                    *)
(***************************************************************************)
\* C23: the fetches that get_all_weather_data runs concurrently share no
\* client: the ClientSession objects two of them make their requests on
\* are different objects.
C23_OwnClientPerFetch ==
    mode = "all" =>
        \A i, j \in Sources :
            (i # j /\ client[i] # 0 /\ client[j] # 0) => client[i] # client[j]

\* C29: the session a handler's async with block creates is closed
\* exactly once on every way out of the block (a reply at its end, the
\* early return after "Unable to fetch" or "Station not found", an
\* exception): it is open and not yet closed while the block runs, fetches
\* and replies; it has been closed once when the reply of the except
\* clause is sent and when the handler is over; it is never closed again,
\* and every fetch is made on it before it is closed.
C29_SessionClosedOnce ==
    /\ [](/\ hpc \in {"idle", "answered", "fetching"} =>
                session = 0 /\ sclosed = 0
          /\ hpc \in {"gathering", "awaiting", "exiting"} =>
                session # 0 /\ sclosed = 0
          /\ hpc = "replying" =>
                /\ session # 0
                /\ sclosed = IF hout.kind = "failed" THEN 1 ELSE 0
          /\ hpc \in {"done", "raised"} /\ hcmd \in FetchCommands =>
                session # 0 /\ sclosed = 1
          /\ \A i \in Sources : client[i] \in {0, session})
    /\ [][/\ client' # client => sclosed = 0 /\ sclosed' = 0 /\ session' # 0
          /\ sclosed' # sclosed => sclosed' = sclosed + 1 /\ session' = session
          /\ session # 0 => session' = session]_vars

C29_Witness ==
    /\ hpc = "done"
    /\ hcmd = "rainfall"
    /\ hreplies[Len(hreplies)].kind = "not_found"
    /\ session # 0
    /\ client[1] = session
    /\ sclosed = 1

(***************************************************************************)
(* Summaries on readings without values, with absent values, and the       *)
(* highest rainfall of the overview.                                       *)
(***************************************************************************)
\* A successful payload without readings, or whose freshest reading has no
\* value.
NoValues(p) ==
    /\ p.tag = "data"
    /\ p.readings = <<>> \/ WithValue(p.readings[1].data) = {}

\* The handler took the summary branch: no station and no "all".
SummaryBranch == StationQuery(hargs) = <<>>

\* C24: an empty summary is no failure: when the payload of /rainfall or
\* /windspeed (no station given) has no readings, or no value in its
\* freshest reading, the reply is the summary with all-zero statistics and
\* count 0; when every source that /weather got is such a payload, the
\* reply is the overview, with all-zero statistics in its rainfall and
\* wind speed sections.
C24_EmptySummaryIsNoFailure ==
    HandlerOver =>
        /\ (/\ hcmd \in {"rainfall", "windspeed"}
            /\ SummaryBranch
            /\ NoValues(hfetch))
           => /\ LastReply.kind = "summary"
              /\ LastReply.stats = ZeroStats
        /\ (/\ hcmd = "weather"
            /\ \E i \in Sources : Returned(i)
            /\ \A i \in Sources :
                  hresults[i] = NoneV \/ NoValues(hresults[i]))
           => /\ LastReply.kind = "overview"
              /\ \A i \in {1, 2} :
                    Returned(i) => /\ SectionOf(LastReply, i).present
                                   /\ SectionOf(LastReply, i).stats = ZeroStats

\* A rainfall payload whose freshest reading has a data point without a
\* value and another with a positive value.
AbsentAndPositive(p) ==
    /\ p.tag = "data"
    /\ p.readings # <<>>
    /\ \E k \in 1..Len(p.readings[1].data) : ~p.readings[1].data[k].value.some
    /\ \E k \in 1..Len(p.readings[1].data) :
          /\ p.readings[1].data[k].value.some
          /\ p.readings[1].data[k].value.v > 0

\* C25: an absent value never makes the request fail: on a rainfall
\* payload whose freshest reading has an absent and a positive value, the
\* rainfall summary is sent, and so is the weather overview when the other
\* sources are absent, and neither lists the station without a value.
C25_AbsentValueSkipped ==
    HandlerOver =>
        /\ (hcmd = "rainfall" /\ SummaryBranch /\ AbsentAndPositive(hfetch))
           => /\ LastReply.kind = "summary"
              /\ LastReply.stats = get_summary_stats(hfetch.readings)
              /\ \A r \in 1..Len(LastReply.rows) : LastReply.rows[r].value.some
        /\ (/\ hcmd = "weather"
            /\ AbsentAndPositive(hresults[1])
            /\ hresults[2] = NoneV /\ hresults[3] = NoneV)
           => /\ LastReply.kind = "overview"
              /\ LastReply.rainfall.present
              /\ LastReply.rainfall.stats = get_summary_stats(hresults[1].readings)

\* C26: a "Highest: V mm at NAME" line of the overview names a station of
\* the rainfall station list whose value in the freshest reading is V, and
\* V is the maximum the section reports, also when the reading has ids
\* that are not in the station list.
C26_HighestNamesItsStation ==
    (/\ HandlerOver
     /\ hcmd = "weather"
     /\ LastReply.kind = "overview"
     /\ LastReply.rainfall.present
     /\ LastReply.rainfall.highest.some)
    => LET high == LastReply.rainfall.highest
           stations == hresults[1].stations
           data == hresults[1].readings[1].data
       IN  /\ high.value = LastReply.rainfall.stats.max
           /\ \E s \in 1..Len(stations), k \in 1..Len(data) :
                 /\ stations[s].name = high.name
                 /\ data[k].stationId = stations[s].id
                 /\ data[k].value.some
                 /\ data[k].value.v = high.value
====
